---- MODULE Spec2Model ----
(***************************************************************************)
(* A model of the check-in admission pipeline and the anti-cheat           *)
(* sub-engine of earlyrise (apps/api/src/routes/checkin.ts).               *)
(*                                                                         *)
(* Time is counted in whole minutes of UTC.  The relational store is the   *)
(* variables users, parts, checkins and anti; every request handler is one *)
(* action, except where a claim is about overlapping requests: there the   *)
(* handler is split at the store calls it awaits.                          *)
(***************************************************************************)
EXTENDS Integers, Sequences, FiniteSets, Bags, TLC

VARIABLES
    now,              \* the clock, minutes of UTC
    challenge_active, \* settings.challenge_active of the global settings row
    users,            \* users table, by telegram_user_id
    parts,            \* participations of the active challenge, by user
    checkins,         \* checkins table, in insertion order (the id is the index)
    anti,             \* anti_cheat_challenges, by checkin_id (unique); NoAnti where there is none
    resp,             \* the reply of the request handled last
    inflight,         \* solve requests that have read the store and not yet replied
    ledger,           \* wallet_ledger rows with delta 0, the idempotency markers (a bag: no unique key)
    buddy_pairs,      \* buddy_pairs rows of the active challenge
    outbox,           \* direct messages handed to Telegram (a bag)
    sweeps,           \* penalty sweep runs that have read their snapshot and not yet replied
    payments,         \* payments table of the active challenge, in insertion order
    subs,             \* the subscription columns and last_seen_at of the users rows, by user
    reports,          \* direct reports that have passed the daily dedup and not yet inserted
    assigns,          \* buddy assignments that have passed the pairing check and not yet inserted
    bot               \* the memory of the bot process: the users told of a tap, by local date

vars == <<now, challenge_active, users, parts, checkins, anti, resp, inflight,
          ledger, buddy_pairs, outbox, sweeps, payments, subs, reports, assigns, bot>>

\* The part of the state that only the sweeps write.
sweepVars == <<ledger, buddy_pairs, outbox, sweeps>>

\* The part of the state that only the access and subscription handlers write.
accessVars == <<payments, subs>>

(***************************************************************************)
(* Bounds of the model.                                                    *)
(***************************************************************************)
MaxCheckins == 1
MaxDay == 1
MaxMinute == 2
BaseMinute == 389
MaxReports == 2
MaxTaps == 1
MaxSweepDay == 3
MaxSweepTaps == 1
MaxConcDay == 3
MaxPayments == 1
MaxAccessDay == 31
MaxOffers == 2
MaxAnswers == 2
MaxGroupTaps == 2
MaxTexts == 2

(***************************************************************************)
(* Constants of the program.                                               *)
(***************************************************************************)
DayMinutes == 1440
AntiCheatTtl == 2
MaxAttempts == 3
BeforeLimit == 55
AfterLimit == 10
PenaltyCutoff == 30
DefaultWindow == 30
DefaultTzOffset == 60
SweepCutoff == 30
LastFineLevel == 3
MaxPenaltyLevel == 4
MaxErrors == 20
TrialDays == 7
OfferIdleDays == 2
ReminderDays == 2
FollowUpDays == 3

Users == {"u1", "u2"}

\* The users who join and check in; the others only register and submit answers.
Reporters == {"u1"}
Procs == {"p1", "p2"}

\* Offsets a user can set with /settz; GMT-06:30 puts a local midnight inside the clock's range.
TzOffsets == {DefaultTzOffset, -390}

\* wake_time_local is null (NoWake) or a minute of the local day.
NoWake == -1
AllowedWakeTimes == {300, 360, 420, 480, 540}

\* Wake times of rows written by the earlier /bot/join (apps/api/src/index.ts), which took
\* every HH:MM: 00:10 and 23:50.
LegacyWakeTimes == {10, 1430}

\* What /join is called with in the main specification.
JoinInputs == {[wake_mode |-> "fixed", wake |-> 420], [wake_mode |-> "flex", wake |-> NoWake]}

\* The instants the clock takes: the minutes BaseMinute..BaseMinute+MaxMinute of the days 0..MaxDay.
Instants == {d * DayMinutes + BaseMinute + k : d \in 0..MaxDay, k \in 0..MaxMinute}

NoUser == [exists |-> FALSE, tz |-> DefaultTzOffset]
NoPart == [exists |-> FALSE, wake_mode |-> "fixed", wake |-> NoWake, left |-> FALSE]
NoAnti == [exists |-> FALSE, answer |-> 0, attempts |-> 0, status |-> "pending", expires |-> 0]
NoResp == [op |-> "none", user |-> "u1", error |-> "none", cid |-> 0]
Idle == [pc |-> "idle", user |-> "u1", cid |-> 0, outcome |-> "none", attempts |-> 0]
NoSweep == [pc |-> "idle"]
NoTime == -1
NoSubs ==
    [paid_until |-> NoTime, reminder_2d_sent_at |-> NoTime, expiry_prompt_sent_at |-> NoTime,
     kicked_from_chat_at |-> NoTime, last_seen_at |-> 0]
NoReport == [pc |-> "idle"]
NoAssign == [pc |-> "idle"]
NoBot == [plusReminderSent |-> {}, plusRejectedNotified |-> {}]

(***************************************************************************)
(* Time Window Evaluator (apps/api/src/utils/time.ts).                     *)
(***************************************************************************)
\* getLocalParts for a fixed offset: the local minute of day and the local day number.
LocalMinute(t, off) == (t + off) % DayMinutes

LocalDay(t, off) == (t + off) \div DayMinutes

\* utcRangeForLocalDay: local midnight as UTC minus the offset, and one day less a tick later.
DayStartUtc(t, off) == LocalDay(t, off) * DayMinutes - off

DayEndUtc(t, off) == DayStartUtc(t, off) + DayMinutes - 1

isInWindow(nowMinutes, startMinutes, windowMinutes) ==
    nowMinutes >= startMinutes /\ nowMinutes <= startMinutes + windowMinutes

\* inMinutesRangeCircular without the wrap over midnight.
inMinutesRangeLinear(nowMinutes, startMinutes, endMinutes) ==
    nowMinutes >= startMinutes /\ nowMinutes <= endMinutes

inMinutesRangeCircular(nowMinutes, startMinutes, endMinutes) ==
    IF startMinutes <= endMinutes
    THEN nowMinutes >= startMinutes /\ nowMinutes <= endMinutes
    ELSE nowMinutes >= startMinutes \/ nowMinutes <= endMinutes

(***************************************************************************)
(* Anti-cheat: the generator and the parsing of a submitted answer.        *)
(***************************************************************************)
\* generateAntiCheat: a + b, or max - min so that the answer is never negative.
AntiCheatAnswer(a, b, op) ==
    IF op = "+" THEN a + b ELSE (IF a >= b THEN a - b ELSE b - a)

\* The operand pairs and operators drawn in the model (of 2..9, 1..9 and {+, -}).
AntiCheatDraws == {[a |-> 5, b |-> 3, op |-> "+"], [a |-> 5, b |-> 5, op |-> "-"]}

Digits == {"0", "1", "2", "3", "4", "5", "6", "7", "8", "9"}

DigitVal(c) ==
    CASE c = "0" -> 0 [] c = "1" -> 1 [] c = "2" -> 2 [] c = "3" -> 3 [] c = "4" -> 4
      [] c = "5" -> 5 [] c = "6" -> 6 [] c = "7" -> 7 [] c = "8" -> 8 [] c = "9" -> 9

\* The answers typed in the model: digits, letters and minus signs in every arrangement
\* the parser tells apart.
AnswerTexts ==
    { <<>>, <<"a">>, <<"-">>, <<"8">>, <<"0">>, <<"a", "8">>, <<"-", "8">>, <<"8", "-">>, <<"0", "8">> }

\* A reporter types every one of them; another user, who owns no check-in, types one.
SolveTexts(u) == IF u \in Reporters THEN AnswerTexts ELSE {<<"8">>}

\* answerRaw.replace(/[^\d-]/g, ""): only digits and minus signs are kept.
StripNonNumeric(s) == SelectSeq(s, LAMBDA c : c \in Digits \/ c = "-")

RECURSIVE DigitsValue(_)
DigitsValue(s) ==
    IF Len(s) = 0 THEN 0
    ELSE 10 * DigitsValue(SubSeq(s, 1, Len(s) - 1)) + DigitVal(s[Len(s)])

AllDigits(s) == \A i \in 1..Len(s) : s[i] \in Digits

\* Number(text): the empty string is 0, an optional minus sign before digits is that
\* integer, anything else left of digits and minus signs is NaN.
ToNumber(s) ==
    IF Len(s) = 0 THEN [finite |-> TRUE, val |-> 0]
    ELSE IF AllDigits(s) THEN [finite |-> TRUE, val |-> DigitsValue(s)]
    ELSE IF s[1] = "-" /\ Len(s) > 1 /\ AllDigits(Tail(s))
         THEN [finite |-> TRUE, val |-> 0 - DigitsValue(Tail(s))]
    ELSE [finite |-> FALSE, val |-> 0]

ParseAnswer(text) == ToNumber(StripNonNumeric(text))

(***************************************************************************)
(* Store helpers (apps/api/src/routes/checkin.ts).                         *)
(***************************************************************************)
\* ensureUser: the row is inserted when missing; timezone takes the column default.
ensureUser(us, u) ==
    IF us[u].exists THEN us ELSE [us EXCEPT ![u] = [exists |-> TRUE, tz |-> DefaultTzOffset]]

\* ensureParticipation that only reads the row.
ensureParticipationReadOnly(ps, u) == ps

\* ensureParticipation: an active row is returned as it is; otherwise the upsert writes
\* role and left_at = null on (user_id, challenge_id), keeping the other columns of an
\* existing row and taking the defaults (wake_mode fixed, no wake time) for a new one.
ensureParticipation(ps, u) ==
    IF ps[u].exists /\ ~ps[u].left THEN ps
    ELSE IF ps[u].exists THEN [ps EXCEPT ![u].left = FALSE]
    ELSE [ps EXCEPT ![u] = [exists |-> TRUE, wake_mode |-> "fixed", wake |-> NoWake, left |-> FALSE]]

\* HasVoiceToday over the day of the UTC clock in place of the user's local day.
HasVoiceTodayUtc(cs, u, t, off) ==
    \E i \in 1..Len(cs) :
        /\ cs[i].user = u
        /\ cs[i].source = "voice"
        /\ cs[i].status \in {"pending", "approved"}
        /\ cs[i].at >= DayStartUtc(t, 0)
        /\ cs[i].at <= DayEndUtc(t, 0)

\* The select shared by /bot/checkin/voice, /bot/checkin/dm_text and hasVoiceCheckinForLocalDay.
HasVoiceToday(cs, u, t, off) ==
    \E i \in 1..Len(cs) :
        /\ cs[i].user = u
        /\ cs[i].source = "voice"
        /\ cs[i].status \in {"pending", "approved"}
        /\ cs[i].at >= DayStartUtc(t, off)
        /\ cs[i].at <= DayEndUtc(t, off)

\* The penalty-mode check of /bot/checkin/voice.
PenaltyMode(p, t, off) ==
    /\ p.exists
    /\ ~p.left
    /\ p.wake_mode # "flex"
    /\ p.wake # NoWake
    /\ LocalMinute(t, off) > p.wake + PenaltyCutoff

NewCheckin(u, t, source, kind, status, reason) ==
    [user |-> u, at |-> t, source |-> source, kind |-> kind, status |-> status, reason |-> reason]

NewAnti(draw, t) ==
    [exists |-> TRUE, answer |-> AntiCheatAnswer(draw.a, draw.b, draw.op), attempts |-> 0,
     status |-> "pending", expires |-> t + AntiCheatTtl]

Reply(op, u, error, cid) == [op |-> op, user |-> u, error |-> error, cid |-> cid]

(***************************************************************************)
(* Accounts: /bot/upsert-user, /bot/set-timezone, /bot/join.              *)
(***************************************************************************)
\* An existing row only has its name and last_seen_at refreshed, which the store of the
\* model does not hold.
UpsertUser(u) ==
    /\ users' = ensureUser(users, u)
    /\ resp' = Reply("upsert_user", u, "none", 0)
    /\ UNCHANGED <<now, challenge_active, accessVars, reports, assigns, bot, sweepVars, parts, checkins, anti, inflight>>

\* The update is keyed by telegram_user_id: it changes nothing for an unknown user.
SetTimezone(u, off) ==
    /\ users' = IF users[u].exists THEN [users EXCEPT ![u].tz = off] ELSE users
    /\ resp' = Reply("set_timezone", u, "none", 0)
    /\ UNCHANGED <<now, challenge_active, accessVars, reports, assigns, bot, sweepVars, parts, checkins, anti, inflight>>

Join(u, in) ==
    /\ IF ~users[u].exists
       THEN /\ resp' = Reply("join", u, "user_not_found", 0)
            /\ UNCHANGED parts
       ELSE /\ parts' = [parts EXCEPT ![u] =
                           [exists |-> TRUE, wake_mode |-> in.wake_mode, wake |-> in.wake, left |-> FALSE]]
            /\ resp' = Reply("join", u, "none", 0)
    /\ UNCHANGED <<now, challenge_active, accessVars, reports, assigns, bot, sweepVars, users, checkins, anti, inflight>>

(***************************************************************************)
(* POST /bot/checkin/plus: the group tap.                                  *)
(***************************************************************************)
\* The window test of a fixed-mode tap: [wake - 55, wake + 10] on the 24h clock.
PlusInTime(wakeMinutes, nowMinutes) ==
    LET earliest == (wakeMinutes - BeforeLimit + DayMinutes) % DayMinutes
        latest == (wakeMinutes + AfterLimit) % DayMinutes
    IN  inMinutesRangeCircular(nowMinutes, earliest, latest)

\* PlusVerdict that holds a flex participant to a wake time as well.
PlusVerdictNoFlex(p, t, off) ==
    IF ~p.exists \/ p.left THEN "not_joined"
    ELSE IF p.wake = NoWake THEN "missing_wake_time"
    ELSE IF PlusInTime(p.wake, LocalMinute(t, off)) THEN "none"
    ELSE "outside_window"

\* The reject reason of a tap, "none" when it is in time.
PlusVerdict(p, t, off) ==
    IF ~p.exists \/ p.left THEN "not_joined"
    ELSE IF p.wake_mode # "flex"
         THEN IF p.wake = NoWake THEN "missing_wake_time"
              ELSE IF PlusInTime(p.wake, LocalMinute(t, off)) THEN "none"
              ELSE "outside_window"
    ELSE "none"

\* PlusParts that puts a participation in place as the direct reports do.
PlusPartsEnsure(ps, u) == ensureParticipation(ps, u)

\* The participations after the handler: it reads the row and never writes one.
PlusParts(ps, u) == ps

Plus(u) ==
    IF ~challenge_active
    THEN /\ resp' = Reply("plus", u, "challenge_inactive", 0)
         /\ UNCHANGED <<now, challenge_active, accessVars, reports, assigns, bot, sweepVars, users, parts, checkins, anti, inflight>>
    ELSE LET us == ensureUser(users, u)
             v == PlusVerdict(parts[u], now, us[u].tz)
         IN  /\ users' = us
             /\ parts' = PlusParts(parts, u)
             /\ checkins' = Append(checkins,
                    NewCheckin(u, now, "text", "group_plus",
                               IF v = "none" THEN "approved" ELSE "rejected", v))
             /\ anti' = Append(anti, NoAnti)
             /\ resp' = Reply("plus", u, v, IF v = "not_joined" THEN 0 ELSE Len(checkins) + 1)
             /\ UNCHANGED <<now, challenge_active, accessVars, reports, assigns, bot, sweepVars, inflight>>

(***************************************************************************)
(* POST /bot/checkin/text: the direct text check-in inside the forward     *)
(* window [wake, wake + 30].                                               *)
(***************************************************************************)
TextVerdict(us, ps, u, t) ==
    IF ~challenge_active THEN "challenge_inactive"
    ELSE IF ~us[u].exists THEN "user_not_found"
    ELSE IF ~ps[u].exists \/ ps[u].left THEN "not_joined"
    ELSE IF ps[u].wake = NoWake THEN "missing_wake_time"
    ELSE IF ~isInWindow(LocalMinute(t, us[u].tz), ps[u].wake, DefaultWindow) THEN "outside_window"
    ELSE "none"

Text(u) ==
    LET v == TextVerdict(users, parts, u, now)
    IN  /\ IF v \in {"none", "outside_window"}
           THEN /\ checkins' = Append(checkins,
                       NewCheckin(u, now, "text", "text",
                                  IF v = "none" THEN "approved" ELSE "rejected", v))
                /\ anti' = Append(anti, NoAnti)
                /\ resp' = Reply("text", u, v, Len(checkins) + 1)
           ELSE /\ resp' = Reply("text", u, v, 0)
                /\ UNCHANGED <<checkins, anti>>
        /\ UNCHANGED <<now, challenge_active, accessVars, reports, assigns, bot, sweepVars, users, parts, inflight>>

(***************************************************************************)
(* POST /bot/checkin/voice and POST /bot/checkin/dm_text: the direct       *)
(* reports, admitted as pending with a fresh anti-cheat challenge.         *)
(***************************************************************************)
VoiceVerdict(us, ps, cs, u, t) ==
    IF PenaltyMode(ps[u], t, us[u].tz) THEN "penalty_mode"
    ELSE IF HasVoiceToday(cs, u, t, us[u].tz) THEN "already_voice_today"
    ELSE "none"

DmTextVerdict(us, ps, cs, u, t) ==
    IF HasVoiceToday(cs, u, t, us[u].tz) THEN "already_voice_today" ELSE "none"

\* What both handlers do once the verdict v is known: the user and the participation
\* are in place, and an admitted report inserts the check-in and its challenge.
Admit(op, u, us, ps, v, draw) ==
    /\ users' = us
    /\ parts' = ps
    /\ IF v = "none"
       THEN /\ checkins' = Append(checkins, NewCheckin(u, now, "voice", op, "pending", "none"))
            /\ anti' = Append(anti, NewAnti(draw, now))
            /\ resp' = Reply(op, u, "none", Len(checkins) + 1)
       ELSE /\ resp' = Reply(op, u, v, 0)
            /\ UNCHANGED <<checkins, anti>>
    /\ UNCHANGED <<now, challenge_active, accessVars, reports, assigns, bot, sweepVars, inflight>>

Voice(u, draw) ==
    IF ~challenge_active
    THEN /\ resp' = Reply("voice", u, "challenge_inactive", 0)
         /\ UNCHANGED <<now, challenge_active, accessVars, reports, assigns, bot, sweepVars, users, parts, checkins, anti, inflight>>
    ELSE LET us == ensureUser(users, u)
             ps == ensureParticipation(parts, u)
         IN  Admit("voice", u, us, ps, VoiceVerdict(us, ps, checkins, u, now), draw)

DmText(u, draw) ==
    IF ~challenge_active
    THEN /\ resp' = Reply("dm_text", u, "challenge_inactive", 0)
         /\ UNCHANGED <<now, challenge_active, accessVars, reports, assigns, bot, sweepVars, users, parts, checkins, anti, inflight>>
    ELSE LET us == ensureUser(users, u)
             ps == ensureParticipation(parts, u)
         IN  Admit("dm_text", u, us, ps, DmTextVerdict(us, ps, checkins, u, now), draw)

(***************************************************************************)
(* POST /bot/anti-cheat/solve: the submit-answer operation.                *)
(***************************************************************************)
\* The lookups before the challenge is evaluated; "none" when all of them succeed.
SolveGate(us, cs, an, u, cid) ==
    IF ~us[u].exists THEN "user_not_found"
    ELSE IF cid \notin 1..Len(cs) THEN "checkin_not_found"
    ELSE IF cs[cid].user # u THEN "checkin_not_found"
    ELSE IF cs[cid].source # "voice" THEN "wrong_checkin"
    ELSE IF ~an[cid].exists THEN "challenge_not_found"
    ELSE "none"

\* SolveOutcome with the attempt limit off by one: the third wrong answer is let through.
SolveOutcomeFourAttempts(ch, t, text) ==
    IF ch.status # "pending" THEN "not_pending"
    ELSE IF ch.expires <= t THEN "expired"
    ELSE LET ans == ParseAnswer(text)
         IN  IF ~ans.finite THEN "invalid_answer"
             ELSE IF ans.val # ch.answer
                  THEN IF ch.attempts + 1 > MaxAttempts THEN "failed" ELSE "wrong_answer"
             ELSE "passed"

\* SolveOutcome with the expiry compared strictly: an answer at the expiry instant counts.
SolveOutcomeLateExpiry(ch, t, text) ==
    IF ch.status # "pending" THEN "not_pending"
    ELSE IF ch.expires < t THEN "expired"
    ELSE LET ans == ParseAnswer(text)
         IN  IF ~ans.finite THEN "invalid_answer"
             ELSE IF ans.val # ch.answer
                  THEN IF ch.attempts + 1 >= MaxAttempts THEN "failed" ELSE "wrong_answer"
             ELSE "passed"

\* The evaluation of an answer against the challenge row ch read at time t.
SolveOutcome(ch, t, text) ==
    IF ch.status # "pending" THEN "not_pending"
    ELSE IF ch.expires <= t THEN "expired"
    ELSE LET ans == ParseAnswer(text)
         IN  IF ~ans.finite THEN "invalid_answer"
             ELSE IF ans.val # ch.answer
                  THEN IF ch.attempts + 1 >= MaxAttempts THEN "failed" ELSE "wrong_answer"
             ELSE "passed"

\* The update of the challenge row; attempts is the count computed from the row read.
ChallengeUpdate(ch, outcome, attempts) ==
    CASE outcome = "expired" -> [ch EXCEPT !.status = "expired"]
      [] outcome = "failed" -> [ch EXCEPT !.attempts = attempts, !.status = "failed"]
      [] outcome = "wrong_answer" -> [ch EXCEPT !.attempts = attempts]
      [] outcome = "passed" -> [ch EXCEPT !.status = "passed"]
      [] OTHER -> ch

\* CheckinUpdate that forgets the check-in when the answer is correct.
CheckinUpdateNoApprove(ck, outcome) ==
    CASE outcome = "expired" -> [ck EXCEPT !.status = "rejected", !.reason = "anticheat_expired"]
      [] outcome = "failed" -> [ck EXCEPT !.status = "rejected", !.reason = "anticheat_failed"]
      [] OTHER -> ck

\* The update of the owning check-in.
CheckinUpdate(ck, outcome) ==
    CASE outcome = "expired" -> [ck EXCEPT !.status = "rejected", !.reason = "anticheat_expired"]
      [] outcome = "failed" -> [ck EXCEPT !.status = "rejected", !.reason = "anticheat_failed"]
      [] outcome = "passed" -> [ck EXCEPT !.status = "approved"]
      [] OTHER -> ck

\* The error code of the reply; a correct answer is answered ok.
SolveError(outcome) == IF outcome = "passed" THEN "none" ELSE outcome

\* The handler run from the request to the reply with no other request in between.
Solve(u, cid, text) ==
    LET g == SolveGate(users, checkins, anti, u, cid)
    IN  /\ IF g # "none"
           THEN /\ resp' = Reply("solve", u, g, cid)
                /\ UNCHANGED <<checkins, anti>>
           ELSE LET o == SolveOutcome(anti[cid], now, text)
                IN  /\ anti' = [anti EXCEPT ![cid] = ChallengeUpdate(anti[cid], o, anti[cid].attempts + 1)]
                    /\ checkins' = [checkins EXCEPT ![cid] = CheckinUpdate(checkins[cid], o)]
                    /\ resp' = Reply("solve", u, SolveError(o), cid)
        /\ UNCHANGED <<now, challenge_active, accessVars, reports, assigns, bot, sweepVars, users, parts, inflight>>

\* The same handler split at its store calls.  SolveRead: the selects and the evaluation.
SolveRead(p, u, cid, text) ==
    /\ inflight[p].pc = "idle"
    /\ LET g == SolveGate(users, checkins, anti, u, cid)
           o == IF g = "none" THEN SolveOutcome(anti[cid], now, text) ELSE g
       IN  IF g = "none" /\ o \in {"expired", "failed", "wrong_answer", "passed"}
           THEN /\ inflight' = [inflight EXCEPT ![p] =
                       [pc |-> "write_challenge", user |-> u, cid |-> cid, outcome |-> o,
                        attempts |-> anti[cid].attempts + 1]]
                /\ UNCHANGED resp
           ELSE /\ resp' = Reply("solve", u, o, cid)
                /\ UNCHANGED inflight
    /\ UNCHANGED <<now, challenge_active, accessVars, reports, assigns, bot, sweepVars, users, parts, checkins, anti>>

\* The update of anti_cheat_challenges, keyed by the row id alone.
SolveWriteChallenge(p) ==
    LET r == inflight[p]
    IN  /\ r.pc = "write_challenge"
        /\ anti' = [anti EXCEPT ![r.cid] = ChallengeUpdate(anti[r.cid], r.outcome, r.attempts)]
        /\ IF r.outcome = "wrong_answer"
           THEN /\ inflight' = [inflight EXCEPT ![p] = Idle]
                /\ resp' = Reply("solve", r.user, SolveError(r.outcome), r.cid)
           ELSE /\ inflight' = [inflight EXCEPT ![p].pc = "write_checkin"]
                /\ UNCHANGED resp
        /\ UNCHANGED <<now, challenge_active, accessVars, reports, assigns, bot, sweepVars, users, parts, checkins>>

\* The update of checkins, keyed by the check-in id alone, and the reply.
SolveWriteCheckin(p) ==
    LET r == inflight[p]
    IN  /\ r.pc = "write_checkin"
        /\ checkins' = [checkins EXCEPT ![r.cid] = CheckinUpdate(checkins[r.cid], r.outcome)]
        /\ inflight' = [inflight EXCEPT ![p] = Idle]
        /\ resp' = Reply("solve", r.user, SolveError(r.outcome), r.cid)
        /\ UNCHANGED <<now, challenge_active, accessVars, reports, assigns, bot, sweepVars, users, parts, anti>>

(***************************************************************************)
(* The clock and the specifications.                                       *)
(***************************************************************************)
\* Time passes to a later minute of the same day of the clock.
Tick ==
    /\ \E t \in Instants : t > now /\ t \div DayMinutes = now \div DayMinutes /\ now' = t
    /\ UNCHANGED <<challenge_active, accessVars, reports, assigns, bot, sweepVars, users, parts, checkins, anti, resp, inflight>>

\* Time passes to a minute of a later day.
NextDay ==
    /\ \E t \in Instants : t \div DayMinutes > now \div DayMinutes /\ now' = t
    /\ UNCHANGED <<challenge_active, accessVars, reports, assigns, bot, sweepVars, users, parts, checkins, anti, resp, inflight>>

Init ==
    /\ now = BaseMinute
    /\ challenge_active = TRUE
    /\ users = [u \in Users |-> NoUser]
    /\ parts = [u \in Users |-> NoPart]
    /\ checkins = <<>>
    /\ anti = <<>>
    /\ resp = NoResp
    /\ inflight = [p \in Procs |-> Idle]
    /\ ledger = EmptyBag
    /\ buddy_pairs = {}
    /\ outbox = EmptyBag
    /\ sweeps = [p \in Procs |-> NoSweep]
    /\ payments = <<>>
    /\ subs = [u \in Users |-> NoSubs]
    /\ reports = [p \in Procs |-> NoReport]
    /\ assigns = [p \in Procs |-> NoAssign]
    /\ bot = NoBot

\* Requests handled one after the other; the store holds at most MaxCheckins check-ins.
Next ==
    \/ \E u \in Users : UpsertUser(u)
    \/ \E u \in Reporters, in \in JoinInputs : Join(u, in)
    \/ \E u \in Reporters : Len(checkins) < MaxCheckins /\ Plus(u)
    \/ \E u \in Reporters : Len(checkins) < MaxCheckins /\ Text(u)
    \/ \E u \in Reporters, draw \in AntiCheatDraws : Len(checkins) < MaxCheckins /\ Voice(u, draw)
    \/ \E u \in Reporters, draw \in AntiCheatDraws : Len(checkins) < MaxCheckins /\ DmText(u, draw)
    \/ \E u \in Users, cid \in 1..Len(checkins) : \E text \in SolveTexts(u) : Solve(u, cid, text)
    \/ Tick

Spec == Init /\ [][Next]_vars

\* Overlapping solve requests: each of the handler's store calls is a step of its own.
NextConc ==
    \/ \E u \in Reporters, draw \in AntiCheatDraws : Len(checkins) < MaxCheckins /\ DmText(u, draw)
    \/ \E p \in Procs, u \in Reporters, cid \in 1..MaxCheckins, text \in AnswerTexts :
          SolveRead(p, u, cid, text)
    \/ \E p \in Procs : SolveWriteChallenge(p)
    \/ \E p \in Procs : SolveWriteCheckin(p)
    \/ Tick

SpecConc == Init /\ [][NextConc]_vars

\* The direct reports of one user over the days of the clock, with the time zone changing.
DayDraws == {[a |-> 5, b |-> 3, op |-> "+"]}
DayAnswers == {<<"8">>}

NextDays ==
    \/ \E u \in Reporters, off \in TzOffsets : SetTimezone(u, off)
    \/ \E u \in Reporters, in \in JoinInputs : Join(u, in)
    \/ \E u \in Reporters, draw \in DayDraws : Len(checkins) < MaxReports /\ Voice(u, draw)
    \/ \E u \in Reporters, draw \in DayDraws : Len(checkins) < MaxReports /\ DmText(u, draw)
    \/ \E u \in Reporters, cid \in 1..Len(checkins), text \in DayAnswers : Solve(u, cid, text)
    \/ Tick
    \/ NextDay

SpecDay == Init /\ [][NextDays]_vars

\* The group tap at every minute of a day, on every participation the store can hold.
TapParts ==
    {NoPart}
    \cup {[exists |-> TRUE, wake_mode |-> "flex", wake |-> NoWake, left |-> l] : l \in BOOLEAN}
    \cup {[exists |-> TRUE, wake_mode |-> "fixed", wake |-> w, left |-> l] :
              w \in AllowedWakeTimes \cup LegacyWakeTimes \cup {NoWake}, l \in BOOLEAN}

InitTap ==
    /\ now \in 0..(DayMinutes - 1)
    /\ challenge_active \in BOOLEAN
    /\ \E off \in TzOffsets, p \in TapParts :
          \/ /\ users = [u \in Users |-> NoUser]
             /\ parts = [u \in Users |-> NoPart]
          \/ /\ users = [u \in Users |-> IF u \in Reporters THEN [exists |-> TRUE, tz |-> off] ELSE NoUser]
             /\ parts = [u \in Users |-> IF u \in Reporters THEN p ELSE NoPart]
    /\ checkins = <<>>
    /\ anti = <<>>
    /\ resp = NoResp
    /\ inflight = [p \in Procs |-> Idle]
    /\ ledger = EmptyBag
    /\ buddy_pairs = {}
    /\ outbox = EmptyBag
    /\ sweeps = [p \in Procs |-> NoSweep]
    /\ payments = <<>>
    /\ subs = [u \in Users |-> NoSubs]
    /\ reports = [p \in Procs |-> NoReport]
    /\ assigns = [p \in Procs |-> NoAssign]
    /\ bot = NoBot

NextTap == \E u \in Reporters : Len(checkins) < MaxTaps /\ Plus(u)

SpecTap == InitTap /\ [][NextTap]_vars

(***************************************************************************)
(* POST /admin/penalties/run: the Penalty Sweep                            *)
(* (apps/api/src/routes/admin.ts).  The follow-up on paid fines is left    *)
(* out: the store of the model holds no payments.                          *)
(***************************************************************************)
\* A marker row of wallet_ledger: reason penalty:miss:<day> or penalty:notice_sent:<day>.
Marker(u, kind, day) == [user |-> u, kind |-> kind, day |-> day]

hasMarker(lg, u, kind, day) == BagIn(Marker(u, kind, day), lg)

\* putMarker whose insert is lost.
putMarkerLost(lg, u, kind, day) == lg

\* putMarker: a plain insert; nothing keeps a second row with the same reason out.
putMarker(lg, u, kind, day) == lg (+) SetToBag({Marker(u, kind, day)})

\* missCount: the number of rows of the user whose reason starts with penalty:miss:.
missCount(lg, u) ==
    LET mine == {m \in DOMAIN lg : m.user = u /\ m.kind = "miss"}
    IN  BagCardinality([m \in mine |-> lg[m]])

\* todayPenaltyLevel (routes/checkin.ts): null (0 here) without a miss marker for the day.
todayPenaltyLevel(lg, u, day) ==
    IF ~hasMarker(lg, u, "miss", day) THEN 0
    ELSE LET n == missCount(lg, u)
             capped == IF n > MaxPenaltyLevel THEN MaxPenaltyLevel ELSE n
         IN  IF capped < 1 THEN 1 ELSE capped

\* penaltyInfo(level).kick: levels 1, 2 and 3 carry a task or a fine, every other one removes.
penaltyKick(level) == level > LastFineLevel

\* A direct message: the penalty notice of a level, or the notice of the removal.
Message(u, kind, day, level) == [to |-> u, kind |-> kind, day |-> day, level |-> level]

send(box, msg) == box (+) SetToBag({msg})

\* The select that finds no row.
HasApprovedPlusTodayBlind(cs, u, t, off) == FALSE

\* The select "has approved group plus today".
HasApprovedPlusToday(cs, u, t, off) ==
    \E i \in 1..Len(cs) :
        /\ cs[i].user = u
        /\ cs[i].status = "approved"
        /\ cs[i].source = "text"
        /\ cs[i].kind = "group_plus"
        /\ cs[i].at >= DayStartUtc(t, off)
        /\ cs[i].at <= DayEndUtc(t, off)

\* What a run reads before its loop: the active participations, their users, the active
\* buddy pairs, and the clock.
SnapshotOf(t, dry, ps, us, pairs) ==
    [at |-> t, dry_run |-> dry, parts |-> ps, users |-> us, pairs |-> pairs]

Snapshot(t, dry) == SnapshotOf(t, dry, parts, users, buddy_pairs)

ActiveIn(snap) == {u \in Users : snap.parts[u].exists /\ ~snap.parts[u].left}

\* buddyOfUser that finds no partner.
buddyOfUserNone(snap, u) == {}

\* buddyOfUser: the partner in an active pair both of whose participations are in the
\* snapshot; a participation is in one active pair at most.
buddyOfUser(snap, u) ==
    {v \in ActiveIn(snap) :
        /\ u \in ActiveIn(snap)
        /\ \E bp \in snap.pairs : bp.status = "active" /\ {bp.a, bp.b} = {u, v} /\ u # v}

\* The orders in which the select can return the rows.
Orders(S) ==
    {q \in [1..Cardinality(S) -> S] : \A i, j \in 1..Cardinality(S) : q[i] = q[j] => i = j}

\* SweepDue without the wait for wake + 30.
SweepDueEarly(snap, u) ==
    /\ snap.users[u].exists
    /\ snap.parts[u].wake_mode # "flex"
    /\ snap.parts[u].wake # NoWake

\* The filters of the loop body that read the snapshot only.
SweepDue(snap, u) ==
    /\ snap.users[u].exists
    /\ snap.parts[u].wake_mode # "flex"
    /\ snap.parts[u].wake # NoWake
    /\ ~(LocalMinute(snap.at, snap.users[u].tz) < snap.parts[u].wake + SweepCutoff)

\* SweepDecide that takes the count of the earlier misses for the level.
SweepDecideNoIncrement(snap, u, lg, cs) ==
    LET off == snap.users[u].tz
        day == LocalDay(snap.at, off)
        alreadyMiss == hasMarker(lg, u, "miss", day)
        count == missCount(lg, u)
        level == IF count < 1 THEN 1 ELSE count
    IN  IF ~SweepDue(snap, u) THEN [act |-> "skip", due |-> FALSE]
        ELSE IF hasMarker(lg, u, "notice_sent", day) THEN [act |-> "skip", due |-> TRUE]
        ELSE IF HasApprovedPlusToday(cs, u, snap.at, off) THEN [act |-> "tap", due |-> TRUE, day |-> day]
        ELSE [act |-> "penalize", due |-> TRUE, day |-> day, level |-> level, new_miss |-> ~alreadyMiss]

\* The reads of the loop body for participant u against the ledger lg and the check-ins
\* cs as they are now: what the body goes on to do.
SweepDecide(snap, u, lg, cs) ==
    LET off == snap.users[u].tz
        day == LocalDay(snap.at, off)
        alreadyMiss == hasMarker(lg, u, "miss", day)
        count == missCount(lg, u)
        level == IF ~alreadyMiss THEN count + 1 ELSE (IF count < 1 THEN 1 ELSE count)
    IN  IF ~SweepDue(snap, u) THEN [act |-> "skip", due |-> FALSE]
        ELSE IF hasMarker(lg, u, "notice_sent", day) THEN [act |-> "skip", due |-> TRUE]
        ELSE IF HasApprovedPlusToday(cs, u, snap.at, off) THEN [act |-> "tap", due |-> TRUE, day |-> day]
        ELSE [act |-> "penalize", due |-> TRUE, day |-> day, level |-> level, new_miss |-> ~alreadyMiss]

\* The store a run writes, with the counters of its report.
SweepStore(ps, lg, box) ==
    [parts |-> ps, ledger |-> lg, outbox |-> box, evaluated |-> 0, notices_sent |-> 0, kicked |-> 0]

\* update participations set left_at = now where user_id in toKick and left_at is null.
StopParticipations(ps, toKick) ==
    [u \in Users |-> IF u \in toKick /\ ps[u].exists /\ ~ps[u].left
                     THEN [ps[u] EXCEPT !.left = TRUE] ELSE ps[u]]

RECURSIVE sendAll(_, _, _, _)
sendAll(box, tos, day, level) ==
    IF tos = {} THEN box
    ELSE LET u == CHOOSE x \in tos : TRUE
         IN  sendAll(send(box, Message(u, "kick", day, level)), tos \ {u}, day, level)

\* The writes of the loop body for participant u once d is decided.
SweepApply(st, snap, u, d) ==
    LET dry == snap.dry_run
        seen == [st EXCEPT !.evaluated = @ + (IF d.due THEN 1 ELSE 0)]
    IN  CASE d.act = "skip" -> seen
          [] d.act = "tap" -> [seen EXCEPT !.ledger = putMarker(@, u, "notice_sent", d.day)]
          [] d.act = "penalize" ->
               IF dry THEN seen
               ELSE LET lg1 == IF d.new_miss THEN putMarker(seen.ledger, u, "miss", d.day) ELSE seen.ledger
                        lg2 == putMarker(lg1, u, "notice_sent", d.day)
                        toKick == {u} \cup buddyOfUser(snap, u)
                    IN  IF penaltyKick(d.level)
                        THEN [seen EXCEPT !.ledger = lg2,
                                          !.parts = StopParticipations(@, toKick),
                                          !.outbox = sendAll(@, toKick, d.day, d.level),
                                          !.kicked = @ + 1]
                        ELSE [seen EXCEPT !.ledger = lg2,
                                          !.outbox = send(@, Message(u, "penalty", d.day, d.level)),
                                          !.notices_sent = @ + 1]

\* The loop over the rows of the snapshot in the order q, each body run to its end.
RECURSIVE SweepLoop(_, _, _, _)
SweepLoop(st, snap, q, cs) ==
    IF Len(q) = 0 THEN st
    ELSE SweepLoop(SweepApply(st, snap, Head(q), SweepDecide(snap, Head(q), st.ledger, cs)),
                   snap, Tail(q), cs)

\* The marker of a confirmation: penalty:pay_notified:<day>|<provider_payment_id>.
PayNotified(m) == [user |-> m.user, kind |-> "pay_notified", day |-> m.day, pid |-> m.pid]

\* The status of the payment row of the user with the provider_payment_id of the marker.
IntentStatus(pays, m) ==
    IF m.pid \in 1..Len(pays) /\ pays[m.pid].user = m.user THEN pays[m.pid].status ELSE "none"

\* FinesDue that does not look at the status of the payment.
FinesDueAnyStatus(lg, snap, pays) ==
    {m \in DOMAIN lg :
        /\ m.kind = "pay_intent"
        /\ m.at >= snap.at - FollowUpDays * DayMinutes
        /\ ~BagIn(PayNotified(m), lg)
        /\ m.user \in ActiveIn(snap) /\ snap.users[m.user].exists}

\* The pay intents of the last three days the follow-up confirms: not confirmed yet, the
\* payment paid, the user among the users of the run.
FinesDue(lg, snap, pays) ==
    {m \in DOMAIN lg :
        /\ m.kind = "pay_intent"
        /\ m.at >= snap.at - FollowUpDays * DayMinutes
        /\ ~BagIn(PayNotified(m), lg)
        /\ IntentStatus(pays, m) = "paid"
        /\ m.user \in ActiveIn(snap) /\ snap.users[m.user].exists}

\* The follow-up of a run after its loop: every due intent gets its marker and its message.
FinesFollowUp(lg, box, snap, pays) ==
    LET due == IF snap.dry_run THEN {} ELSE FinesDue(lg, snap, pays)
    IN  [ledger |-> lg (+) SetToBag({PayNotified(m) : m \in due}),
         outbox |-> box (+) SetToBag({[to |-> m.user, kind |-> "fine_paid", day |-> m.day,
                                       level |-> 0, pid |-> m.pid, amount |-> m.amount] : m \in due}),
         notified |-> Cardinality(due)]

SweepReply(st, dry, notified) ==
    [op |-> "penalties_run", dry_run |-> dry, evaluated |-> st.evaluated,
     notices_sent |-> st.notices_sent, kicked |-> st.kicked, fines_paid_notified |-> notified]

\* The run from the request to the reply with no other request in between.
PenaltiesRun(dry, q) ==
    LET snap == Snapshot(now, dry)
        st == SweepLoop(SweepStore(parts, ledger, outbox), snap, q, checkins)
        fu == FinesFollowUp(st.ledger, st.outbox, snap, payments)
    IN  /\ q \in Orders(ActiveIn(snap))
        /\ parts' = st.parts
        /\ ledger' = fu.ledger
        /\ outbox' = fu.outbox
        /\ resp' = SweepReply(st, dry, fu.notified)
        /\ UNCHANGED <<now, challenge_active, accessVars, reports, assigns, bot, users, checkins, anti, inflight, buddy_pairs, sweeps>>

\* The instants of the sweep specifications: on each of the days 0..MaxSweepDay the minute a
\* 07:00 riser taps in, and the minutes round wake + 30.
TapMinute == BaseMinute - 29

SweepInstants ==
    {d * DayMinutes + m : d \in 0..MaxSweepDay, m \in {TapMinute, BaseMinute, BaseMinute + 1}}

SweepClock ==
    /\ \E t \in SweepInstants : t > now /\ now' = t
    /\ UNCHANGED <<challenge_active, accessVars, reports, assigns, bot, sweepVars, users, parts, checkins, anti, resp, inflight>>

\* The participations the sweep runs on: those /join writes, and none.
SweepParts ==
    {NoPart} \cup {[exists |-> TRUE, wake_mode |-> in.wake_mode, wake |-> in.wake, left |-> FALSE] : in \in JoinInputs}

\* Two registered users, the first of them joined, paired as buddies or not.
InitSweep ==
    /\ now = TapMinute
    /\ challenge_active = TRUE
    /\ \E p1 \in SweepParts \ {NoPart}, p2 \in SweepParts :
          /\ users = [u \in Users |-> [exists |-> TRUE, tz |-> DefaultTzOffset]]
          /\ parts = [u \in Users |-> IF u \in Reporters THEN p1 ELSE p2]
          /\ buddy_pairs \in IF p2.exists THEN {{}, {[a |-> "u1", b |-> "u2", status |-> "active"]}} ELSE {{}}
    /\ checkins = <<>>
    /\ anti = <<>>
    /\ resp = NoResp
    /\ inflight = [p \in Procs |-> Idle]
    /\ ledger = EmptyBag
    /\ outbox = EmptyBag
    /\ sweeps = [p \in Procs |-> NoSweep]
    /\ payments = <<>>
    /\ subs = [u \in Users |-> NoSubs]
    /\ reports = [p \in Procs |-> NoReport]
    /\ assigns = [p \in Procs |-> NoAssign]
    /\ bot = NoBot

\* Sweep runs one after the other, over the days, with the group taps in between.
NextSweep ==
    \/ \E dry \in BOOLEAN : \E q \in Orders(ActiveIn(Snapshot(now, dry))) : PenaltiesRun(dry, q)
    \/ \E u \in Reporters : Len(checkins) < MaxSweepTaps /\ Plus(u)
    \/ SweepClock

SpecSweep == InitSweep /\ [][NextSweep]_vars

(***************************************************************************)
(* The Penalty Sweep run step by step: a run reads its snapshot once, and  *)
(* for every row the reads of the markers and of the group tap come before *)
(* the writes, with the requests of other runs in between.                 *)
(***************************************************************************)
\* now, dry_run, parts, usersById and buddyOfUser are read; the loop has its rows ahead.
SweepStart(p, dry, q) ==
    /\ sweeps[p].pc = "idle"
    /\ q \in Orders(ActiveIn(Snapshot(now, dry)))
    /\ sweeps' = [sweeps EXCEPT ![p] =
                    [pc |-> "loop", snap |-> Snapshot(now, dry), queue |-> q,
                     evaluated |-> 0, notices_sent |-> 0, kicked |-> 0]]
    /\ UNCHANGED <<now, challenge_active, accessVars, reports, assigns, bot, users, parts, checkins, anti, resp, inflight,
                   ledger, buddy_pairs, outbox>>

\* hasMarker, the group tap select and missCount for the next row.
SweepRead(p) ==
    /\ sweeps[p].pc = "loop"
    /\ Len(sweeps[p].queue) > 0
    /\ sweeps' = [sweeps EXCEPT ![p] =
                    [pc |-> "write", snap |-> @.snap, queue |-> @.queue,
                     evaluated |-> @.evaluated, notices_sent |-> @.notices_sent, kicked |-> @.kicked,
                     decision |-> SweepDecide(@.snap, Head(@.queue), ledger, checkins)]]
    /\ UNCHANGED <<now, challenge_active, accessVars, reports, assigns, bot, users, parts, checkins, anti, resp, inflight,
                   ledger, buddy_pairs, outbox>>

\* putMarker, the left_at update and the messages for the row that was read.
SweepWrite(p) ==
    /\ sweeps[p].pc = "write"
    /\ LET sw == sweeps[p]
           st == SweepApply([parts |-> parts, ledger |-> ledger, outbox |-> outbox,
                             evaluated |-> sw.evaluated, notices_sent |-> sw.notices_sent,
                             kicked |-> sw.kicked],
                            sw.snap, Head(sw.queue), sw.decision)
       IN  /\ parts' = st.parts
           /\ ledger' = st.ledger
           /\ outbox' = st.outbox
           /\ sweeps' = [sweeps EXCEPT ![p] =
                           [pc |-> "loop", snap |-> sw.snap, queue |-> Tail(sw.queue),
                            evaluated |-> st.evaluated, notices_sent |-> st.notices_sent,
                            kicked |-> st.kicked]]
    /\ UNCHANGED <<now, challenge_active, accessVars, reports, assigns, bot, users, checkins, anti, resp, inflight, buddy_pairs>>

\* The reply once the loop is through.
SweepFinish(p) ==
    /\ sweeps[p].pc = "loop"
    /\ Len(sweeps[p].queue) = 0
    /\ LET fu == FinesFollowUp(ledger, outbox, [sweeps[p].snap EXCEPT !.at = now], payments)
       IN  /\ ledger' = fu.ledger
           /\ outbox' = fu.outbox
           /\ resp' = SweepReply(sweeps[p], sweeps[p].snap.dry_run, fu.notified)
    /\ sweeps' = [sweeps EXCEPT ![p] = NoSweep]
    /\ UNCHANGED <<now, challenge_active, accessVars, reports, assigns, bot, users, parts, checkins, anti, inflight,
                   buddy_pairs>>

\* The group tap of the first user at 07:00 of day 0, as /bot/checkin/plus records it.
ConcTap == NewCheckin("u1", TapMinute, "text", "group_plus", "approved", "none")

\* The store after one run a day, at the minute past wake + 30, on the days d..k-1.
RECURSIVE SweepHistory(_, _, _, _, _, _)
SweepHistory(st, d, k, us, pairs, cs) ==
    IF d >= k THEN st
    ELSE LET snap == SnapshotOf(d * DayMinutes + BaseMinute + 1, FALSE, st.parts, us, pairs)
             q == CHOOSE o \in Orders(ActiveIn(snap)) : TRUE
         IN  SweepHistory(SweepLoop(SweepStore(st.parts, st.ledger, st.outbox), snap, q, cs),
                          d + 1, k, us, pairs, cs)

\* The minute past wake + 30 of a day 0..MaxConcDay, after a run on each of the days
\* before it and with or without the tap of day 0; no run in flight.
InitSweepConc ==
    /\ challenge_active = TRUE
    /\ inflight = [p \in Procs |-> Idle]
    /\ sweeps = [p \in Procs |-> NoSweep]
    /\ payments = <<>>
    /\ subs = [u \in Users |-> NoSubs]
    /\ reports = [p \in Procs |-> NoReport]
    /\ assigns = [p \in Procs |-> NoAssign]
    /\ bot = NoBot
    /\ users = [u \in Users |-> [exists |-> TRUE, tz |-> DefaultTzOffset]]
    /\ \E p1 \in SweepParts \ {NoPart}, p2 \in SweepParts, tapped \in BOOLEAN, k \in 0..MaxConcDay :
          /\ buddy_pairs \in IF p2.exists THEN {{}, {[a |-> "u1", b |-> "u2", status |-> "active"]}} ELSE {{}}
          /\ checkins = IF tapped THEN <<ConcTap>> ELSE <<>>
          /\ anti = IF tapped THEN <<NoAnti>> ELSE <<>>
          /\ now = k * DayMinutes + BaseMinute + 1
          /\ LET ps0 == [u \in Users |-> IF u \in Reporters THEN p1 ELSE p2]
                 st == SweepHistory(SweepStore(ps0, EmptyBag, EmptyBag), 0, k, users, buddy_pairs, checkins)
             IN  /\ parts = st.parts
                 /\ ledger = st.ledger
                 /\ outbox = st.outbox
                 /\ resp = IF k > 0 THEN SweepReply(st, FALSE, 0)
                           ELSE IF tapped THEN Reply("plus", "u1", "none", 1)
                           ELSE NoResp

\* Overlapping sweep runs at one instant.
NextSweepConc ==
    \/ \E p \in Procs, dry \in BOOLEAN :
          \E q \in Orders(ActiveIn(Snapshot(now, dry))) : SweepStart(p, dry, q)
    \/ \E p \in Procs : SweepRead(p)
    \/ \E p \in Procs : SweepWrite(p)
    \/ \E p \in Procs : SweepFinish(p)

SpecSweepConc == InitSweepConc /\ [][NextSweepConc]_vars

(***************************************************************************)
(* The Penalty Sweep with failing calls: for each participant the send of  *)
(* the message may fail, or the first store call of the loop body.         *)
(***************************************************************************)
Faults == [Users -> {"none", "send", "store"}]

\* errors.push under if (errors.length < 20).
pushError(errors, step, u) ==
    IF Len(errors) < MaxErrors THEN Append(errors, [step |-> step, to |-> u]) ELSE errors

RECURSIVE pushErrors(_, _, _)
pushErrors(errors, step, tos) ==
    IF tos = {} THEN errors
    ELSE LET u == CHOOSE x \in tos : TRUE
         IN  pushErrors(pushError(errors, step, u), step, tos \ {u})

\* The loop body whose telegramSendMessage throws: the catch keeps the markers and the
\* left_at update, no message leaves and noticesSent is not counted.
SweepApplyFaulty(ls, snap, u, d, fault) ==
    LET done == SweepApply(ls.st, snap, u, d)
        sends == fault = "send" /\ d.act = "penalize" /\ ~snap.dry_run
        kick == sends /\ penaltyKick(d.level)
    IN  IF ~sends THEN [ls EXCEPT !.st = done]
        ELSE [ls EXCEPT !.st = [done EXCEPT !.outbox = ls.st.outbox, !.notices_sent = ls.st.notices_sent],
                        !.errors = IF kick THEN pushErrors(@, "dm_kick", {u} \cup buddyOfUser(snap, u))
                                   ELSE pushError(@, "dm_notice", u)]

\* The loop; hasMarker throws r.error outside every try, which ends the handler.
RECURSIVE SweepLoopFaulty(_, _, _, _, _)
SweepLoopFaulty(ls, snap, q, cs, faults) ==
    IF Len(q) = 0 \/ ls.thrown THEN ls
    ELSE LET u == Head(q)
         IN  IF faults[u] = "store" /\ SweepDue(snap, u)
             THEN [ls EXCEPT !.thrown = TRUE]
             ELSE SweepLoopFaulty(SweepApplyFaulty(ls, snap, u, SweepDecide(snap, u, ls.st.ledger, cs), faults[u]),
                                  snap, Tail(q), cs, faults)

\* The reply with its error list, or the 500 of an error thrown out of the handler.
SweepReplyFaulty(ls, dry) ==
    IF ls.thrown
    THEN [op |-> "penalties_run", dry_run |-> dry, ok |-> FALSE, evaluated |-> 0,
          notices_sent |-> 0, kicked |-> 0, errors |-> <<>>]
    ELSE [op |-> "penalties_run", dry_run |-> dry, ok |-> TRUE, evaluated |-> ls.st.evaluated,
          notices_sent |-> ls.st.notices_sent, kicked |-> ls.st.kicked, errors |-> ls.errors]

PenaltiesRunFaulty(dry, q, faults) ==
    LET snap == Snapshot(now, dry)
        ls == SweepLoopFaulty([st |-> SweepStore(parts, ledger, outbox), errors |-> <<>>, thrown |-> FALSE],
                              snap, q, checkins, faults)
        fu == IF ls.thrown THEN [ledger |-> ls.st.ledger, outbox |-> ls.st.outbox, notified |-> 0]
              ELSE FinesFollowUp(ls.st.ledger, ls.st.outbox, snap, payments)
    IN  /\ q \in Orders(ActiveIn(snap))
        /\ parts' = ls.st.parts
        /\ ledger' = fu.ledger
        /\ outbox' = fu.outbox
        /\ resp' = SweepReplyFaulty(ls, dry)
        /\ UNCHANGED <<now, challenge_active, accessVars, reports, assigns, bot, users, checkins, anti, inflight, buddy_pairs, sweeps>>

NextSweepFault ==
    \E dry \in BOOLEAN, faults \in Faults :
        \E q \in Orders(ActiveIn(Snapshot(now, dry))) : PenaltiesRunFaulty(dry, q, faults)

SpecSweepFault == InitSweepConc /\ [][NextSweepFault]_vars

(***************************************************************************)
(* The access class of a user (routes/checkin.ts): payments, the trial     *)
(* marker, and the profile fetch GET /bot/me with its offers.              *)
(***************************************************************************)
\* The tariffs of /bot/pay/create, and an amount that maps to no plan.
PayPlans == {"d30", "life", "custom"}

paidDaysFromPlanOrAmount(plan) ==
    CASE plan = "life" -> [days |-> 0, is_forever |-> TRUE]
      [] plan = "d30" -> [days |-> 30, is_forever |-> FALSE]
      [] plan = "d60" -> [days |-> 60, is_forever |-> FALSE]
      [] plan = "d90" -> [days |-> 90, is_forever |-> FALSE]
      [] OTHER -> [days |-> 0, is_forever |-> FALSE]

\* isFutureIso that counts the instant itself as future.
isFutureIsoInclusive(iso, t) == iso # NoTime /\ iso >= t

isFutureIso(iso, t) == iso # NoTime /\ iso > t

Greatest(S) == CHOOSE x \in S : \A y \in S : y <= x

\* The rows of the user with status paid.
PaidRows(pays, u) == {i \in 1..Len(pays) : pays[i].user = u /\ pays[i].status = "paid"}

getPaidAccessInfo(pays, u, t) ==
    LET rows == PaidRows(pays, u)
        forever == \E i \in rows : paidDaysFromPlanOrAmount(pays[i].plan).is_forever
        untils == {pays[i].at + paidDaysFromPlanOrAmount(pays[i].plan).days * DayMinutes :
                      i \in {j \in rows : /\ ~paidDaysFromPlanOrAmount(pays[j].plan).is_forever
                                          /\ paidDaysFromPlanOrAmount(pays[j].plan).days > 0}}
        until == IF untils = {} THEN NoTime ELSE Greatest(untils)
    IN  IF rows = {}
        THEN [is_active_paid |-> FALSE, has_any_paid |-> FALSE, is_forever |-> FALSE, paid_until |-> NoTime]
        ELSE IF forever
        THEN [is_active_paid |-> TRUE, has_any_paid |-> TRUE, is_forever |-> TRUE, paid_until |-> NoTime]
        ELSE [is_active_paid |-> isFutureIso(until, t), has_any_paid |-> TRUE, is_forever |-> FALSE,
              paid_until |-> until]

\* The rows with the latest created_at among the payments of the user, of any status.
LatestPayments(pays, u) ==
    LET mine == {i \in 1..Len(pays) : pays[i].user = u}
    IN  {i \in mine : \A j \in mine : pays[j].at <= pays[i].at}

\* The trial_7d_start markers carry their created_at in the day field.
getTrialUntilUtc(lg, u) ==
    LET starts == {m.day : m \in {x \in DOMAIN lg : x.user = u /\ x.kind = "trial_7d_start"}}
    IN  IF starts = {} THEN NoTime ELSE Greatest(starts) + TrialDays * DayMinutes

\* The plain access class without the participation split.
AccessStatus(pays, lg, u, t) ==
    IF getPaidAccessInfo(pays, u, t).is_active_paid THEN "paid"
    ELSE IF isFutureIso(getTrialUntilUtc(lg, u), t) THEN "trial"
    ELSE IF getPaidAccessInfo(pays, u, t).has_any_paid THEN "expired"
    ELSE "lead"

\* The offer with the markers it writes: the refund notice of the refunded latest payment,
\* the trial offer, the chat invite, the renewal prompt, in this order.
MeOffer(pays, lg, sb, u, t, latest) ==
    LET info == getPaidAccessInfo(pays, u, t)
        status == AccessStatus(pays, lg, u, t)
        refunded == ~info.is_active_paid /\ latest # 0 /\ pays[latest].status = "refunded"
        refundNew == refunded /\ ~hasMarker(lg, u, "refund_notice_sent", latest)
        offerSent == hasMarker(lg, u, "trial_offer_sent", 0)
        idle == ~(t - sb[u].last_seen_at < OfferIdleDays * DayMinutes)
    IN  IF refundNew
        THEN [type |-> "refund_notice", message |-> TRUE,
              ledger |-> putMarker(lg, u, "refund_notice_sent", latest)]
        ELSE IF status = "lead" /\ offerSent
        THEN [type |-> "trial_7d", message |-> FALSE, ledger |-> lg]
        ELSE IF status = "lead" /\ idle
        THEN [type |-> "trial_7d", message |-> TRUE, ledger |-> putMarker(lg, u, "trial_offer_sent", 0)]
        ELSE IF status = "lead"
        THEN [type |-> "none", message |-> FALSE, ledger |-> lg]
        ELSE IF status = "paid" /\ ~hasMarker(lg, u, "chat_invite_sent", 0)
        THEN [type |-> "chat_invite", message |-> TRUE, ledger |-> putMarker(lg, u, "chat_invite_sent", 0)]
        ELSE IF status = "expired"
        THEN [type |-> "renew_prompt", message |-> TRUE, ledger |-> lg]
        ELSE [type |-> "none", message |-> FALSE, ledger |-> lg]

MeReply(u, status, offer) ==
    [op |-> "me", user |-> u, error |-> "none", status |-> status, offer |-> offer.type,
     message |-> offer.message]

\* GET /bot/me/:telegramUserId, and the bot replying with offer.message when there is one.
Me(u, latest) ==
    /\ latest \in (IF LatestPayments(payments, u) = {} THEN {0} ELSE LatestPayments(payments, u))
    /\ IF ~users[u].exists
       THEN /\ resp' = [op |-> "me", user |-> u, error |-> "user_not_found", status |-> "none",
                        offer |-> "none", message |-> FALSE]
            /\ UNCHANGED <<ledger, outbox, subs>>
       ELSE IF ~challenge_active
       THEN /\ resp' = MeReply(u, "lead", [type |-> "none", message |-> FALSE])
            /\ subs' = [subs EXCEPT ![u].last_seen_at = now]
            /\ UNCHANGED <<ledger, outbox>>
       ELSE LET info == getPaidAccessInfo(payments, u, now)
                offer == MeOffer(payments, ledger, subs, u, now, latest)
            IN  /\ resp' = MeReply(u, AccessStatus(payments, ledger, u, now), offer)
                /\ ledger' = offer.ledger
                /\ outbox' = IF offer.message THEN send(outbox, Message(u, offer.type, 0, 0)) ELSE outbox
                /\ subs' = [subs EXCEPT ![u].paid_until = info.paid_until, ![u].last_seen_at = now]
    /\ UNCHANGED <<now, challenge_active, users, parts, checkins, anti, inflight, buddy_pairs,
                   sweeps, payments, reports, assigns, bot>>

\* POST /bot/trial/claim.
TrialClaimVerdict(pays, lg, us, u, t) ==
    IF ~us[u].exists THEN "user_not_found"
    ELSE IF ~challenge_active THEN "no_active_challenge"
    ELSE IF getPaidAccessInfo(pays, u, t).is_active_paid THEN "already_paid"
    ELSE IF isFutureIso(getTrialUntilUtc(lg, u), t) THEN "trial_active"
    ELSE "none"

TrialClaim(u) ==
    LET v == TrialClaimVerdict(payments, ledger, users, u, now)
    IN  /\ resp' = Reply("trial_claim", u, v, 0)
        /\ ledger' = IF v = "none" THEN putMarker(ledger, u, "trial_7d_start", now) ELSE ledger
        /\ UNCHANGED <<now, challenge_active, accessVars, reports, assigns, bot, users, parts, checkins, anti,
                       inflight, buddy_pairs, outbox, sweeps>>

\* POST /bot/pay/create: a pending payment row, unless the user is paid now.
PayCreateVerdict(pays, us, u, t) ==
    IF ~us[u].exists THEN "user_not_found"
    ELSE IF ~challenge_active THEN "no_active_challenge"
    ELSE IF getPaidAccessInfo(pays, u, t).is_active_paid THEN "already_paid"
    ELSE "none"

PayCreate(u, plan) ==
    LET v == PayCreateVerdict(payments, users, u, now)
    IN  /\ resp' = Reply("pay_create", u, v, 0)
        /\ payments' = IF v = "none"
                       THEN Append(payments, [user |-> u, at |-> now, plan |-> plan, status |-> "pending"])
                       ELSE payments
        /\ UNCHANGED <<now, challenge_active, subs, reports, assigns, bot, sweepVars, users, parts, checkins, anti,
                       inflight>>

\* POST /payments/webhook: the status of the provider written on the payment row.
PaymentsWebhook(i, status) ==
    /\ i \in 1..Len(payments)
    /\ payments' = [payments EXCEPT ![i].status = status]
    /\ resp' = Reply("payments_webhook", payments[i].user, "none", i)
    /\ UNCHANGED <<now, challenge_active, subs, reports, assigns, bot, sweepVars, users, parts, checkins, anti,
                   inflight>>

\* The instants of the access specifications: midnights of the days round the end of a
\* trial and of a 30-day period.
AccessDays == {0, 2, 6, 7} \cup (28..MaxAccessDay)

AccessClock ==
    /\ \E d \in AccessDays : d * DayMinutes > now /\ now' = d * DayMinutes
    /\ UNCHANGED <<challenge_active, accessVars, reports, assigns, bot, sweepVars, users, parts, checkins, anti,
                   resp, inflight>>

\* Two registered users at day 0, no payment and no marker.
InitAccess ==
    /\ now = 0
    /\ challenge_active = TRUE
    /\ users = [u \in Users |-> [exists |-> TRUE, tz |-> DefaultTzOffset]]
    /\ parts = [u \in Users |-> NoPart]
    /\ checkins = <<>>
    /\ anti = <<>>
    /\ resp = NoResp
    /\ inflight = [p \in Procs |-> Idle]
    /\ ledger = EmptyBag
    /\ buddy_pairs = {}
    /\ outbox = EmptyBag
    /\ sweeps = [p \in Procs |-> NoSweep]
    /\ payments = <<>>
    /\ subs = [u \in Users |-> NoSubs]
    /\ reports = [p \in Procs |-> NoReport]
    /\ assigns = [p \in Procs |-> NoAssign]
    /\ bot = NoBot

NextAccess ==
    \/ \E u \in Reporters, plan \in PayPlans : Len(payments) < MaxPayments /\ PayCreate(u, plan)
    \/ \E i \in 1..Len(payments), status \in {"paid", "refunded"} : PaymentsWebhook(i, status)
    \/ \E u \in Reporters : TrialClaim(u)
    \/ \E u \in Reporters : \E latest \in 0..Len(payments) :
          BagCardinality(outbox) < MaxOffers /\ Me(u, latest)
    \/ AccessClock

SpecAccess == InitAccess /\ [][NextAccess]_vars

\* The payment rows and the trial marker a user can hold on day 2: rows created on day 0
\* or day 2 in any status the webhook writes, a trial claimed on one of these days.
ClassRows ==
    {[user |-> "u1", at |-> d * DayMinutes, plan |-> plan, status |-> status] :
        d \in {0, 2}, plan \in PayPlans, status \in {"pending", "paid", "refunded"}}

RECURSIVE SeqsUpTo(_, _)
SeqsUpTo(S, n) ==
    IF n = 0 THEN {<<>>}
    ELSE SeqsUpTo(S, n - 1) \cup {Append(q, x) : q \in {r \in SeqsUpTo(S, n - 1) : Len(r) = n - 1}, x \in S}

ClassTrials == {EmptyBag} \cup {SetToBag({Marker("u1", "trial_7d_start", d * DayMinutes)}) : d \in {0, 2}}

InitClass ==
    /\ now = 2 * DayMinutes
    /\ challenge_active = TRUE
    /\ users = [u \in Users |-> [exists |-> TRUE, tz |-> DefaultTzOffset]]
    /\ parts = [u \in Users |-> NoPart]
    /\ checkins = <<>>
    /\ anti = <<>>
    /\ resp = NoResp
    /\ inflight = [p \in Procs |-> Idle]
    /\ ledger \in ClassTrials
    /\ buddy_pairs = {}
    /\ outbox = EmptyBag
    /\ sweeps = [p \in Procs |-> NoSweep]
    /\ payments \in SeqsUpTo(ClassRows, MaxPayments)
    /\ subs = [u \in Users |-> NoSubs]
    /\ reports = [p \in Procs |-> NoReport]
    /\ assigns = [p \in Procs |-> NoAssign]
    /\ bot = NoBot

\* Profile fetches over the days.
NextClass ==
    \/ \E u \in Reporters : \E latest \in 0..Len(payments) :
          BagCardinality(outbox) < MaxOffers /\ Me(u, latest)
    \/ AccessClock

SpecClass == InitClass /\ [][NextClass]_vars

(***************************************************************************)
(* POST /admin/subscriptions/run (routes/admin.ts): the Subscription       *)
(* Sweep.  The users rows carry the subscription columns, so the once-only *)
(* tests read the columns and the ledger markers are not consulted.        *)
(***************************************************************************)
\* alreadySentByCol that never finds the column set.
SubsAlreadyNever(col, since) == FALSE

\* alreadySentByCol / alreadyKickedByCol: the column is set at or after the trigger instant.
SubsAlready(col, since) == col # NoTime /\ col >= since

\* The users the run loads: those with a participation row, left or not.
SubsUsers(ps, us) == {u \in Users : ps[u].exists /\ us[u].exists}

SubsStore(ps, sb, box) ==
    [parts |-> ps, subs |-> sb, outbox |-> box, computed |-> 0, reminders_sent |-> 0,
     expiry_prompts_sent |-> 0, marked_left |-> 0, kicked |-> 0]

\* The loop body for user u; info is computed from the paid rows read before the loop,
\* sb0 and active are the users rows and the active participations read before the loop.
SubsApply(st, u, info, sb0, active, t, dry) ==
    LET until == info.paid_until
        reminderAt == until - ReminderDays * DayMinutes
        dated == IF dry THEN st
                 ELSE [st EXCEPT !.subs[u].paid_until = IF info.is_forever THEN NoTime ELSE until]
        seen == [dated EXCEPT !.computed = @ + 1]
        remind == /\ t >= reminderAt
                  /\ t < until
                  /\ ~SubsAlready(sb0[u].reminder_2d_sent_at, reminderAt)
                  /\ ~dry
        inExpiry == t >= until /\ t < until + DayMinutes
        prompt == inExpiry /\ ~SubsAlready(sb0[u].expiry_prompt_sent_at, until) /\ ~dry
        stop == inExpiry /\ u \in active /\ ~dry
        kick == /\ t >= until + DayMinutes
                /\ ~SubsAlready(sb0[u].kicked_from_chat_at, until + DayMinutes)
                /\ ~dry
        s1 == IF remind
              THEN [seen EXCEPT !.outbox = send(@, Message(u, "reminder_2d", until, 0)),
                                !.subs[u].reminder_2d_sent_at = t,
                                !.reminders_sent = @ + 1]
              ELSE seen
        s2 == IF prompt
              THEN [s1 EXCEPT !.outbox = send(@, Message(u, "expiry_prompt", until, 0)),
                              !.subs[u].expiry_prompt_sent_at = t,
                              !.expiry_prompts_sent = @ + 1]
              ELSE s1
        s3 == IF stop
              THEN [s2 EXCEPT !.parts = StopParticipations(@, {u}), !.marked_left = @ + 1]
              ELSE s2
        s4 == IF kick
              THEN [s3 EXCEPT !.outbox = send(@, Message(u, "sub_kick", until, 0)),
                              !.subs[u].kicked_from_chat_at = t,
                              !.kicked = @ + 1]
              ELSE s3
    IN  IF info.is_forever \/ until = NoTime THEN seen ELSE s4

RECURSIVE SubsLoop(_, _, _, _, _, _, _)
SubsLoop(st, todo, pays, sb0, active, t, dry) ==
    IF todo = {} THEN st
    ELSE LET u == CHOOSE x \in todo : TRUE
         IN  SubsLoop(SubsApply(st, u, getPaidAccessInfo(pays, u, t), sb0, active, t, dry),
                      todo \ {u}, pays, sb0, active, t, dry)

SubsReply(st, dry) ==
    [op |-> "subscriptions_run", dry_run |-> dry, computed |-> st.computed,
     reminders_sent |-> st.reminders_sent, expiry_prompts_sent |-> st.expiry_prompts_sent,
     marked_left |-> st.marked_left, kicked |-> st.kicked]

SubscriptionsRun(dry) ==
    LET active == {u \in Users : parts[u].exists /\ ~parts[u].left}
        st == SubsLoop(SubsStore(parts, subs, outbox), SubsUsers(parts, users), payments, subs,
                       active, now, dry)
    IN  /\ challenge_active
        /\ parts' = st.parts
        /\ subs' = st.subs
        /\ outbox' = st.outbox
        /\ resp' = SubsReply(st, dry)
        /\ UNCHANGED <<now, challenge_active, users, checkins, anti, inflight, ledger, buddy_pairs,
                       sweeps, payments, reports, assigns, bot>>

\* The payment rows of the sweep specification: a 30-day or a forever plan bought on
\* day 0 or day 2 and confirmed by the provider.
SubsRows ==
    {[user |-> "u1", at |-> d * DayMinutes, plan |-> plan, status |-> "paid"] :
        d \in {0, 2}, plan \in {"d30", "life"}}

\* Day 2: the first user has joined and holds payment rows, no trial was claimed.
InitSubs ==
    /\ now = 2 * DayMinutes
    /\ challenge_active = TRUE
    /\ users = [u \in Users |-> [exists |-> TRUE, tz |-> DefaultTzOffset]]
    /\ \E p1 \in SweepParts \ {NoPart} : parts = [u \in Users |-> IF u \in Reporters THEN p1 ELSE NoPart]
    /\ checkins = <<>>
    /\ anti = <<>>
    /\ resp = NoResp
    /\ inflight = [p \in Procs |-> Idle]
    /\ ledger = EmptyBag
    /\ buddy_pairs = {}
    /\ outbox = EmptyBag
    /\ sweeps = [p \in Procs |-> NoSweep]
    /\ payments \in SeqsUpTo(SubsRows, MaxPayments)
    /\ subs = [u \in Users |-> NoSubs]
    /\ reports = [p \in Procs |-> NoReport]
    /\ assigns = [p \in Procs |-> NoAssign]
    /\ bot = NoBot

\* Sweep runs over the days, with the webhook and the trial claim in between.
NextSubs ==
    \/ \E dry \in BOOLEAN : SubscriptionsRun(dry)
    \/ \E i \in 1..Len(payments), status \in {"paid", "refunded"} : PaymentsWebhook(i, status)
    \/ \E u \in Reporters : TrialClaim(u)
    \/ AccessClock

SpecSubs == InitSubs /\ [][NextSubs]_vars

(***************************************************************************)
(* POST /admin/bootstrap/testers (apps/api/src/routes/admin.ts), and the   *)
(* operations that write left_at after a sweep has set it.                 *)
(***************************************************************************)
\* The body of the request: GMT+03:00 with a fixed or a flexible wake time.
BootstrapInputs ==
    {[tz |-> 180, wake_mode |-> "fixed", wake |-> 420], [tz |-> 180, wake_mode |-> "flex", wake |-> NoWake]}

\* The row of one user after the loop body: a missing or left row is upserted with
\* left_at = null, an active row has its wake columns updated.
BootstrapPart(in) == [exists |-> TRUE, wake_mode |-> in.wake_mode, wake |-> in.wake, left |-> FALSE]

BootstrapTesters(in) ==
    /\ IF ~challenge_active
       THEN /\ resp' = Reply("bootstrap_testers", "u1", "no_active_challenge", 0)
            /\ UNCHANGED <<users, parts>>
       ELSE /\ users' = [u \in Users |->
                            IF users[u].exists /\ users[u].tz = DefaultTzOffset
                            THEN [users[u] EXCEPT !.tz = in.tz] ELSE users[u]]
            /\ parts' = [u \in Users |-> IF users[u].exists THEN BootstrapPart(in) ELSE parts[u]]
            /\ resp' = Reply("bootstrap_testers", "u1", "none", 0)
    /\ UNCHANGED <<now, challenge_active, accessVars, reports, assigns, bot, sweepVars, checkins, anti, inflight>>

\* A joined user with paid payments; the Subscription Sweep marks the participation as
\* left, and the user reports, joins or is bootstrapped afterwards.
NextLeave ==
    \/ SubscriptionsRun(FALSE)
    \/ \E u \in Reporters, in \in JoinInputs : Join(u, in)
    \/ \E u \in Reporters, draw \in AntiCheatDraws : Len(checkins) < MaxCheckins /\ Voice(u, draw)
    \/ \E u \in Reporters, draw \in AntiCheatDraws : Len(checkins) < MaxCheckins /\ DmText(u, draw)
    \/ \E in \in BootstrapInputs : BootstrapTesters(in)
    \/ AccessClock

SpecLeave == InitSubs /\ [][NextLeave]_vars

(***************************************************************************)
(* POST /admin/buddy/assign and POST /admin/buddy/unpair                   *)
(* (apps/api/src/routes/admin.ts). The pairing check of an assignment and  *)
(* its insert are separate calls to the store, with the requests of other  *)
(* admins in between.                                                      *)
(***************************************************************************)
\* getActiveParticipationId: the row of the user with left_at null.
getActiveParticipationId(ps, u) == ps[u].exists /\ ~ps[u].left

\* getBuddyUserForParticipation: the active pairs holding the participation on either
\* side; the select returns one of them (limit 1).
getBuddyUserForParticipation(pairs, u) ==
    {bp \in pairs : bp.status = "active" /\ (bp.a = u \/ bp.b = u)}

\* uq_buddy_pairs_a_active and uq_buddy_pairs_b_active: one active row per value of
\* participation_a_id, and one per value of participation_b_id.
UniqueActiveSides(pairs, a, b) ==
    /\ ~\E bp \in pairs : bp.status = "active" /\ bp.a = a
    /\ ~\E bp \in pairs : bp.status = "active" /\ bp.b = b

\* The checks of the assignment before its insert.
AssignVerdict(ps, pairs, a, b) ==
    IF a = b THEN "invalid_users"
    ELSE IF ~challenge_active THEN "no_active_challenge"
    ELSE IF ~getActiveParticipationId(ps, a) \/ ~getActiveParticipationId(ps, b)
         THEN "participation_not_found"
    ELSE IF getBuddyUserForParticipation(pairs, a) # {} \/ getBuddyUserForParticipation(pairs, b) # {}
         THEN "already_paired"
    ELSE "none"

AssignRead(p, a, b) ==
    /\ assigns[p].pc = "idle"
    /\ LET verdict == AssignVerdict(parts, buddy_pairs, a, b)
       IN  IF verdict # "none"
           THEN /\ resp' = Reply("buddy_assign", a, verdict, 0)
                /\ UNCHANGED assigns
           ELSE /\ assigns' = [assigns EXCEPT ![p] = [pc |-> "insert", a |-> a, b |-> b]]
                /\ UNCHANGED resp
    /\ UNCHANGED <<now, challenge_active, accessVars, reports, bot, sweepVars, users, parts, checkins,
                   anti, inflight>>

\* The insert of the pair; a row refused by one of the unique indexes is thrown.
AssignInsert(p) ==
    /\ assigns[p].pc = "insert"
    /\ LET a == assigns[p].a
           b == assigns[p].b
       IN  IF UniqueActiveSides(buddy_pairs, a, b)
           THEN /\ buddy_pairs' = buddy_pairs \cup {[a |-> a, b |-> b, status |-> "active"]}
                /\ resp' = Reply("buddy_assign", a, "none", 0)
           ELSE /\ resp' = Reply("buddy_assign", a, "internal", 0)
                /\ UNCHANGED buddy_pairs
    /\ assigns' = [assigns EXCEPT ![p] = NoAssign]
    /\ UNCHANGED <<now, challenge_active, accessVars, reports, bot, users, parts, checkins, anti,
                   inflight, ledger, outbox, sweeps>>

BuddyUnpair(u) ==
    /\ IF ~challenge_active
       THEN /\ resp' = Reply("buddy_unpair", u, "no_active_challenge", 0)
            /\ UNCHANGED buddy_pairs
       ELSE IF ~getActiveParticipationId(parts, u)
       THEN /\ resp' = Reply("buddy_unpair", u, "participation_not_found", 0)
            /\ UNCHANGED buddy_pairs
       ELSE IF getBuddyUserForParticipation(buddy_pairs, u) = {}
       THEN /\ resp' = Reply("buddy_unpair", u, "not_paired", 0)
            /\ UNCHANGED buddy_pairs
       ELSE /\ \E bp \in getBuddyUserForParticipation(buddy_pairs, u) :
                  buddy_pairs' = (buddy_pairs \ {bp}) \cup {[bp EXCEPT !.status = "inactive"]}
            /\ resp' = Reply("buddy_unpair", u, "none", 0)
    /\ UNCHANGED <<now, challenge_active, accessVars, reports, assigns, bot, users, parts, checkins,
                   anti, inflight, ledger, outbox, sweeps>>

\* Two registered users at day 0, the first of them joined, the second joined or not.
InitBuddy ==
    /\ now = 0
    /\ challenge_active = TRUE
    /\ users = [u \in Users |-> [exists |-> TRUE, tz |-> DefaultTzOffset]]
    /\ \E p1 \in SweepParts \ {NoPart}, p2 \in SweepParts : parts = [u \in Users |-> IF u = "u1" THEN p1 ELSE p2]
    /\ checkins = <<>>
    /\ anti = <<>>
    /\ resp = NoResp
    /\ inflight = [p \in Procs |-> Idle]
    /\ ledger = EmptyBag
    /\ buddy_pairs = {}
    /\ outbox = EmptyBag
    /\ sweeps = [p \in Procs |-> NoSweep]
    /\ payments = <<>>
    /\ subs = [u \in Users |-> NoSubs]
    /\ reports = [p \in Procs |-> NoReport]
    /\ assigns = [p \in Procs |-> NoAssign]
    /\ bot = NoBot

NextBuddy ==
    \/ \E p \in Procs, a \in Users, b \in Users : AssignRead(p, a, b)
    \/ \E p \in Procs : AssignInsert(p)
    \/ \E u \in Users : BuddyUnpair(u)

SpecBuddy == InitBuddy /\ [][NextBuddy]_vars

(***************************************************************************)
(* POST /bot/checkin/voice and POST /bot/checkin/dm_text step by step: the *)
(* select of the day's report and the insert of the check-in are separate  *)
(* calls to the store, with the requests of the same user in between.      *)
(***************************************************************************)
ReportVerdict(op, us, ps, cs, u, t) ==
    IF op = "voice" THEN VoiceVerdict(us, ps, cs, u, t) ELSE DmTextVerdict(us, ps, cs, u, t)

\* The handler up to the select of the day's report: the user and the participation are
\* in place, and a report that is refused is answered.
ReportRead(p, op, u) ==
    /\ reports[p].pc = "idle"
    /\ IF ~challenge_active
       THEN /\ resp' = Reply(op, u, "challenge_inactive", 0)
            /\ UNCHANGED <<users, parts, reports>>
       ELSE LET us == ensureUser(users, u)
                ps == ensureParticipation(parts, u)
                v == ReportVerdict(op, us, ps, checkins, u, now)
            IN  /\ users' = us
                /\ parts' = ps
                /\ IF v = "none"
                   THEN /\ reports' = [reports EXCEPT ![p] = [pc |-> "insert", op |-> op, user |-> u]]
                        /\ UNCHANGED resp
                   ELSE /\ resp' = Reply(op, u, v, 0)
                        /\ UNCHANGED reports
    /\ UNCHANGED <<now, challenge_active, accessVars, assigns, bot, sweepVars, checkins, anti, inflight>>

\* ReportInsert that selects the day's report again in the statement of the insert.
ReportInsertAtomic(p, draw) ==
    /\ reports[p].pc = "insert"
    /\ LET op == reports[p].op
           u == reports[p].user
       IN  IF HasVoiceToday(checkins, u, now, users[u].tz)
           THEN /\ resp' = Reply(op, u, "already_voice_today", 0)
                /\ UNCHANGED <<checkins, anti>>
           ELSE /\ checkins' = Append(checkins, NewCheckin(u, now, "voice", op, "pending", "none"))
                /\ anti' = Append(anti, NewAnti(draw, now))
                /\ resp' = Reply(op, u, "none", Len(checkins) + 1)
    /\ reports' = [reports EXCEPT ![p] = NoReport]
    /\ UNCHANGED <<now, challenge_active, accessVars, assigns, bot, sweepVars, users, parts, inflight>>

\* The insert of the check-in, stamped with the time of the insert, and of its challenge.
ReportInsert(p, draw) ==
    /\ reports[p].pc = "insert"
    /\ LET op == reports[p].op
           u == reports[p].user
       IN  /\ checkins' = Append(checkins, NewCheckin(u, now, "voice", op, "pending", "none"))
           /\ anti' = Append(anti, NewAnti(draw, now))
           /\ resp' = Reply(op, u, "none", Len(checkins) + 1)
    /\ reports' = [reports EXCEPT ![p] = NoReport]
    /\ UNCHANGED <<now, challenge_active, accessVars, assigns, bot, sweepVars, users, parts, inflight>>

\* The reports that have passed the select and are not inserted yet.
ReportsAhead == Cardinality({p \in Procs : reports[p].pc = "insert"})

\* Overlapping direct reports of one user; the store holds at most MaxReports check-ins.
NextReport ==
    \/ \E p \in Procs, op \in {"voice", "dm_text"}, u \in Reporters :
          Len(checkins) + ReportsAhead < MaxReports /\ ReportRead(p, op, u)
    \/ \E p \in Procs, draw \in DayDraws : ReportInsert(p, draw)
    \/ \E u \in Reporters, in \in JoinInputs : Join(u, in)
    \/ Tick
    \/ NextDay

SpecReport == Init /\ [][NextReport]_vars

(***************************************************************************)
(* The direct reports with a failure after the insert of the check-in: the *)
(* insert of the transcript throws, or the insert of the challenge fails   *)
(* and its result is not looked at.                                        *)
(***************************************************************************)
ReportFailures == {"transcript", "challenge"}

\* The handler of a report whose store call `failure` fails: the check-in is in the store,
\* the challenge is not; a failed transcript is thrown, a failed challenge insert is
\* answered as admitted.
AdmitFailed(op, u, failure) ==
    /\ challenge_active
    /\ LET us == ensureUser(users, u)
           ps == ensureParticipation(parts, u)
       IN  /\ ReportVerdict(op, us, ps, checkins, u, now) = "none"
           /\ users' = us
           /\ parts' = ps
           /\ checkins' = Append(checkins, NewCheckin(u, now, "voice", op, "pending", "none"))
           /\ anti' = Append(anti, NoAnti)
           /\ resp' = Reply(op, u, IF failure = "transcript" THEN "internal" ELSE "none",
                            Len(checkins) + 1)
    /\ UNCHANGED <<now, challenge_active, accessVars, reports, assigns, bot, sweepVars, inflight>>

NextReportFault ==
    \/ \E u \in Reporters, draw \in DayDraws : Len(checkins) < MaxReports /\ Voice(u, draw)
    \/ \E u \in Reporters, draw \in DayDraws : Len(checkins) < MaxReports /\ DmText(u, draw)
    \/ \E u \in Reporters, op \in {"voice", "dm_text"}, failure \in ReportFailures :
          Len(checkins) < MaxReports /\ AdmitFailed(op, u, failure)
    \/ \E u \in Reporters, cid \in 1..Len(checkins) : \E text \in DayAnswers : Solve(u, cid, text)
    \/ Tick
    \/ NextDay

SpecReportFault == Init /\ [][NextReportFault]_vars

(***************************************************************************)
(* The answers to a penalty notice: POST /bot/penalty/choose,              *)
(* /bot/penalty/pay/create and /bot/penalty/task/submit                    *)
(* (apps/api/src/routes/checkin.ts).                                       *)
(***************************************************************************)
\* penaltyInfo over PENALTY_LEVELS (routes/checkin.ts).
penaltyInfo(level) ==
    CASE level = 1 -> [squats |-> 50, fine_rub |-> 150, kick |-> FALSE]
      [] level = 2 -> [squats |-> 100, fine_rub |-> 300, kick |-> FALSE]
      [] level = 3 -> [squats |-> 200, fine_rub |-> 500, kick |-> FALSE]
      [] level = 4 -> [squats |-> 0, fine_rub |-> 0, kick |-> TRUE]
      [] OTHER -> [squats |-> 200, fine_rub |-> 500, kick |-> level >= 4]

\* penaltyInfo of the Penalty Sweep (routes/admin.ts), whose notice names the pair.
penaltyInfoRun(level) ==
    IF level <= 1 THEN [squats |-> 50, fine_rub |-> 150, kick |-> FALSE]
    ELSE IF level = 2 THEN [squats |-> 100, fine_rub |-> 300, kick |-> FALSE]
    ELSE IF level = 3 THEN [squats |-> 200, fine_rub |-> 500, kick |-> FALSE]
    ELSE [squats |-> 0, fine_rub |-> 0, kick |-> TRUE]

\* The checks shared by the three endpoints, for the local date of the request.
PenaltyVerdict(us, lg, u, day) ==
    IF ~challenge_active THEN "no_active_challenge"
    ELSE IF ~us[u].exists THEN "user_not_found"
    ELSE IF todayPenaltyLevel(lg, u, day) = 0 THEN "no_penalty_today"
    ELSE IF penaltyInfo(todayPenaltyLevel(lg, u, day)).kick THEN "kicked"
    ELSE "none"

PenaltyReply(op, u, error, day, level) ==
    [op |-> op, user |-> u, error |-> error, day |-> day, level |-> level,
     squats |-> penaltyInfo(level).squats, fine_rub |-> penaltyInfo(level).fine_rub]

\* The marker of a payment link: penalty:pay_intent:<day>|<provider_payment_id>|<amount>.
PayIntent(u, day, pid, amount) ==
    [user |-> u, kind |-> "pay_intent", day |-> day, pid |-> pid, amount |-> amount, at |-> now]

PenaltyChoose(u, day, choice) ==
    LET v == PenaltyVerdict(users, ledger, u, day)
        level == todayPenaltyLevel(ledger, u, day)
    IN  /\ resp' = PenaltyReply("penalty_choose", u, v, day, IF v = "none" THEN level ELSE 0)
        /\ ledger' = IF v = "none" THEN putMarker(ledger, u, choice, day) ELSE ledger
        /\ UNCHANGED <<now, challenge_active, accessVars, reports, assigns, bot, users, parts, checkins,
                       anti, inflight, buddy_pairs, outbox, sweeps>>

\* The payment link of the fine; init_ok is the answer of the bank to Init.
PenaltyPayCreate(u, day, init_ok) ==
    LET v0 == PenaltyVerdict(users, ledger, u, day)
        v == IF v0 = "none" /\ ~init_ok THEN "tbank_init_failed" ELSE v0
        level == todayPenaltyLevel(ledger, u, day)
        pid == Len(payments) + 1
    IN  /\ resp' = PenaltyReply("penalty_pay_create", u, v, day, IF v = "none" THEN level ELSE 0)
        /\ IF v = "none"
           THEN /\ payments' = Append(payments, [user |-> u, at |-> now, plan |-> "penalty", status |-> "pending"])
                /\ ledger' = ledger (+) SetToBag({PayIntent(u, day, pid, penaltyInfo(level).fine_rub)})
           ELSE UNCHANGED <<payments, ledger>>
        /\ UNCHANGED <<now, challenge_active, subs, reports, assigns, bot, users, parts, checkins,
                       anti, inflight, buddy_pairs, outbox, sweeps>>

PenaltyTaskSubmit(u, day) ==
    LET v0 == PenaltyVerdict(users, ledger, u, day)
        v == IF v0 = "none" /\ ~hasMarker(ledger, u, "choice_task", day) THEN "task_not_chosen" ELSE v0
        level == todayPenaltyLevel(ledger, u, day)
    IN  /\ resp' = PenaltyReply("penalty_task_submit", u, v, day, IF v = "none" THEN level ELSE 0)
        /\ ledger' = IF v = "none" THEN putMarker(ledger, u, "task_submitted", day) ELSE ledger
        /\ UNCHANGED <<now, challenge_active, accessVars, reports, assigns, bot, users, parts, checkins,
                       anti, inflight, buddy_pairs, outbox, sweeps>>

\* The answers recorded on the ledger: the choices and the submitted tasks.
AnswersOf(lg) ==
    BagCardinality([m \in {x \in DOMAIN lg : x.kind \in {"choice_task", "choice_pay", "task_submitted"}} |-> lg[m]])

\* The minute past wake + 30 of each of the days 0..MaxSweepDay.
PenaltyClock ==
    /\ \E d \in 0..MaxSweepDay : d * DayMinutes + BaseMinute + 1 > now /\ now' = d * DayMinutes + BaseMinute + 1
    /\ UNCHANGED <<challenge_active, accessVars, reports, assigns, bot, sweepVars, users, parts, checkins, anti,
                   resp, inflight>>

\* A riser of 07:00 and a user who has not joined, at the minute past wake + 30 of day 0.
InitPenalty ==
    /\ now = BaseMinute + 1
    /\ challenge_active = TRUE
    /\ users = [u \in Users |-> [exists |-> TRUE, tz |-> DefaultTzOffset]]
    /\ parts = [u \in Users |-> IF u \in Reporters
                               THEN [exists |-> TRUE, wake_mode |-> "fixed", wake |-> 420, left |-> FALSE]
                               ELSE NoPart]
    /\ checkins = <<>>
    /\ anti = <<>>
    /\ resp = NoResp
    /\ inflight = [p \in Procs |-> Idle]
    /\ ledger = EmptyBag
    /\ buddy_pairs = {}
    /\ outbox = EmptyBag
    /\ sweeps = [p \in Procs |-> NoSweep]
    /\ payments = <<>>
    /\ subs = [u \in Users |-> NoSubs]
    /\ reports = [p \in Procs |-> NoReport]
    /\ assigns = [p \in Procs |-> NoAssign]
    /\ bot = NoBot

\* Sweep runs over the days, the answers of the participant to the notices, and the
\* provider reporting on the payments of the fines.
NextPenalty ==
    \/ \E dry \in BOOLEAN : \E q \in Orders(ActiveIn(Snapshot(now, dry))) : PenaltiesRun(dry, q)
    \/ \E u \in Reporters, day \in 0..MaxSweepDay, choice \in {"choice_task", "choice_pay"} :
          AnswersOf(ledger) < MaxAnswers /\ PenaltyChoose(u, day, choice)
    \/ \E u \in Reporters, day \in 0..MaxSweepDay, init_ok \in BOOLEAN :
          Len(payments) < MaxPayments /\ PenaltyPayCreate(u, day, init_ok)
    \/ \E u \in Reporters, day \in 0..MaxSweepDay :
          AnswersOf(ledger) < MaxAnswers /\ PenaltyTaskSubmit(u, day)
    \/ \E i \in 1..Len(payments), status \in {"paid", "refunded"} : PaymentsWebhook(i, status)
    \/ PenaltyClock

SpecPenalty == InitPenalty /\ [][NextPenalty]_vars

\* The fines alone: the participant starts payments, the provider reports on them, and the
\* sweep runs day after day with its follow-up of the paid fines.
NextFines ==
    \/ \E dry \in BOOLEAN : \E q \in Orders(ActiveIn(Snapshot(now, dry))) : PenaltiesRun(dry, q)
    \/ \E u \in Reporters, day \in 0..MaxSweepDay, init_ok \in BOOLEAN :
          Len(payments) < MaxPayments /\ PenaltyPayCreate(u, day, init_ok)
    \/ \E i \in 1..Len(payments), status \in {"paid", "refunded"} : PaymentsWebhook(i, status)
    \/ PenaltyClock

SpecFines == InitPenalty /\ [][NextFines]_vars

(***************************************************************************)
(* The group flow of the bot (apps/bot/src/handlers/group.ts): a message   *)
(* starting with + is passed to POST /bot/checkin/plus, and the user is    *)
(* told in a direct message of a rejected tap, or reminded of the voice    *)
(* report. The bot takes one update at a time (bot.start), and its sets    *)
(* live as long as the process.                                            *)
(***************************************************************************)
\* The key of plusRejectedNotified that tells the rejection reasons apart.
RejectedKeyByReason(u, day, reason) == <<u, day, reason>>

\* The key of both sets: `${telegram_user_id}:${local_date}`.
RejectedKey(u, day, reason) == <<u, day>>

\* The message handler for a tap of user u; dm_ok is whether Telegram delivers the direct
\* message (the user has started the bot and has not blocked it).
GroupTap(u, dm_ok) ==
    IF ~challenge_active
    THEN /\ resp' = Reply("plus", u, "challenge_inactive", 0)
         /\ UNCHANGED <<now, challenge_active, accessVars, reports, assigns, bot, sweepVars, users, parts,
                        checkins, anti, inflight>>
    ELSE LET us == ensureUser(users, u)
             v == PlusVerdict(parts[u], now, us[u].tz)
             day == LocalDay(now, us[u].tz)
             row == NewCheckin(u, now, "text", "group_plus", IF v = "none" THEN "approved" ELSE "rejected", v)
             needs_voice == ~HasVoiceToday(Append(checkins, row), u, now, us[u].tz)
             key == RejectedKey(u, day, v)
             remind == v = "none" /\ needs_voice /\ key \notin bot.plusReminderSent /\ dm_ok
             notify == v # "none" /\ key \notin bot.plusRejectedNotified /\ dm_ok
         IN  /\ users' = us
             /\ parts' = PlusParts(parts, u)
             /\ checkins' = Append(checkins, row)
             /\ anti' = Append(anti, NoAnti)
             /\ resp' = Reply("plus", u, v, IF v = "not_joined" THEN 0 ELSE Len(checkins) + 1)
             /\ outbox' = IF remind THEN send(outbox, [to |-> u, kind |-> "plus_reminder", day |-> day,
                                                       level |-> 0, reason |-> v])
                          ELSE IF notify THEN send(outbox, [to |-> u, kind |-> "plus_rejected", day |-> day,
                                                            level |-> 0, reason |-> v])
                          ELSE outbox
             /\ bot' = IF remind THEN [bot EXCEPT !.plusReminderSent = @ \cup {key}]
                       ELSE IF notify THEN [bot EXCEPT !.plusRejectedNotified = @ \cup {key}]
                       ELSE bot
             /\ UNCHANGED <<now, challenge_active, accessVars, reports, assigns, inflight, ledger,
                            buddy_pairs, sweeps>>

\* The taps of one user in the group over the days, the user joining in between.
NextGroup ==
    \/ \E u \in Reporters, dm_ok \in BOOLEAN : Len(checkins) < MaxGroupTaps /\ GroupTap(u, dm_ok)
    \/ \E u \in Reporters, in \in JoinInputs : Join(u, in)
    \/ Tick
    \/ NextDay

SpecGroup == Init /\ [][NextGroup]_vars

(***************************************************************************)
(* isInWindow under POST /bot/checkin/text, with the wake times and the    *)
(* instants drawn around a local midnight.                                 *)
(***************************************************************************)
\* Wake times of the morning and of the last half hour of the local day.
WindowWakes == {420, 1420, 1430}

\* The local minutes of the requests, counted from the start of local day 1: the evening
\* of day 1 and the first minutes of day 2, and the morning of day 2.
WindowLocal ==
    {DayMinutes + m : m \in {1419, 1420, 1430, 1439}} \cup
    {2 * DayMinutes + m : m \in {0, 5, 10, 20, 21, 419, 420, 450, 451}}

WindowInstants == {m - DefaultTzOffset : m \in WindowLocal}

InitWindow ==
    /\ now \in WindowInstants
    /\ challenge_active = TRUE
    /\ users = [u \in Users |-> [exists |-> TRUE, tz |-> DefaultTzOffset]]
    /\ \E w \in WindowWakes :
          parts = [u \in Users |-> IF u \in Reporters
                                   THEN [exists |-> TRUE, wake_mode |-> "fixed", wake |-> w, left |-> FALSE]
                                   ELSE NoPart]
    /\ checkins = <<>>
    /\ anti = <<>>
    /\ resp = NoResp
    /\ inflight = [p \in Procs |-> Idle]
    /\ ledger = EmptyBag
    /\ buddy_pairs = {}
    /\ outbox = EmptyBag
    /\ sweeps = [p \in Procs |-> NoSweep]
    /\ payments = <<>>
    /\ subs = [u \in Users |-> NoSubs]
    /\ reports = [p \in Procs |-> NoReport]
    /\ assigns = [p \in Procs |-> NoAssign]
    /\ bot = NoBot

\* Time passes to a later drawn instant.
WindowClock ==
    /\ \E t \in WindowInstants : t > now /\ now' = t
    /\ UNCHANGED <<challenge_active, accessVars, reports, assigns, bot, sweepVars, users, parts, checkins,
                   anti, resp, inflight>>

NextWindow ==
    \/ \E u \in Reporters : Len(checkins) < MaxTexts /\ Text(u)
    \/ WindowClock

SpecWindow == InitWindow /\ [][NextWindow]_vars

(***************************************************************************)
(* parseGmtOffsetToMinutes (apps/api/src/utils/time.ts) over strings held  *)
(* as sequences of characters, as normalizeTimezoneToStore calls it for    *)
(* the text of POST /bot/set-timezone.                                     *)
(***************************************************************************)
MaxOffsetHours == 14
MaxOffsetMinute == 59

\* The i flag of the pattern, for the letters it names.
UpperChar(c) ==
    CASE c = "g" -> "G" [] c = "m" -> "M" [] c = "t" -> "T" [] c = "u" -> "U" [] c = "c" -> "C"
      [] OTHER -> c

RECURSIVE SkipSpaces(_)
SkipSpaces(q) == IF q # <<>> /\ Head(q) = " " THEN SkipSpaces(Tail(q)) ELSE q

RECURSIVE DropSpacesAtEnd(_)
DropSpacesAtEnd(q) ==
    IF q # <<>> /\ q[Len(q)] = " " THEN DropSpacesAtEnd(SubSeq(q, 1, Len(q) - 1)) ELSE q

\* String.prototype.trim.
Trim(q) == DropSpacesAtEnd(SkipSpaces(q))

NoMatch == [ok |-> FALSE, hh |-> <<>>, mm |-> <<>>]

\* (\d{1,2})(?::?(\d{2}))?$ on the text after the sign: the hours and the minutes it captures.
MatchHoursMinutes(q) ==
    LET colons == {i \in 1..Len(q) : q[i] = ":"}
    IN  IF colons = {}
        THEN IF ~AllDigits(q) \/ Len(q) \notin 1..4 THEN NoMatch
             ELSE IF Len(q) <= 2 THEN [ok |-> TRUE, hh |-> q, mm |-> <<>>]
             ELSE [ok |-> TRUE, hh |-> SubSeq(q, 1, Len(q) - 2), mm |-> SubSeq(q, Len(q) - 1, Len(q))]
        ELSE LET at == CHOOSE i \in colons : TRUE
                 hh == SubSeq(q, 1, at - 1)
                 mm == SubSeq(q, at + 1, Len(q))
             IN  IF /\ Cardinality(colons) = 1
                    /\ Len(hh) \in 1..2 /\ AllDigits(hh)
                    /\ Len(mm) = 2 /\ AllDigits(mm)
                 THEN [ok |-> TRUE, hh |-> hh, mm |-> mm]
                 ELSE NoMatch

NullOffset == [ok |-> FALSE, minutes |-> 0]

\* The offset in minutes, or null.
parseGmtOffsetToMinutes(input) ==
    LET s == Trim(input)
        word == IF Len(s) >= 3 THEN [i \in 1..3 |-> UpperChar(s[i])] ELSE <<>>
        afterWord == IF Len(s) >= 3 THEN SkipSpaces(SubSeq(s, 4, Len(s))) ELSE <<>>
        signed == afterWord # <<>> /\ Head(afterWord) \in {"+", "-"}
        m == IF signed THEN MatchHoursMinutes(SkipSpaces(Tail(afterWord))) ELSE NoMatch
        sign == IF signed /\ Head(afterWord) = "-" THEN -1 ELSE 1
        hh == DigitsValue(m.hh)
        mm == IF m.mm # <<>> THEN DigitsValue(m.mm) ELSE 0
    IN  IF word \notin {<<"G", "M", "T">>, <<"U", "T", "C">>} \/ ~m.ok THEN NullOffset
        ELSE IF hh < 0 \/ hh > MaxOffsetHours THEN NullOffset
        ELSE IF mm < 0 \/ mm > MaxOffsetMinute THEN NullOffset
        ELSE [ok |-> TRUE, minutes |-> sign * (hh * 60 + mm)]

\* The texts a user sends as a time zone: a word, a sign, hours and minutes in the
\* spellings of the pattern and next to them.
OffsetInputs ==
    {word \o pad \o sign \o hh \o sep \o mm :
        word \in {<<"G", "M", "T">>, <<"U", "T", "C">>, <<"g", "m", "t">>, <<"G", "M">>},
        pad \in {<<>>, <<" ">>},
        sign \in {<<"+">>, <<"-">>},
        hh \in {<<"3">>, <<"0", "3">>, <<"1", "4">>, <<"1", "5">>},
        sep \in {<<>>, <<":">>},
        mm \in {<<>>, <<"0", "0">>, <<"3", "0">>, <<"5", "9">>, <<"6", "0">>, <<"5">>}}

OffsetRequest(input) ==
    [op |-> "timezone_text", user |-> "u1", error |-> "none", cid |-> 0, input |-> input]

InitOffset ==
    /\ now = BaseMinute
    /\ challenge_active = TRUE
    /\ users = [u \in Users |-> [exists |-> TRUE, tz |-> DefaultTzOffset]]
    /\ parts = [u \in Users |-> NoPart]
    /\ checkins = <<>>
    /\ anti = <<>>
    /\ \E input \in OffsetInputs : resp = OffsetRequest(input)
    /\ inflight = [p \in Procs |-> Idle]
    /\ ledger = EmptyBag
    /\ buddy_pairs = {}
    /\ outbox = EmptyBag
    /\ sweeps = [p \in Procs |-> NoSweep]
    /\ payments = <<>>
    /\ subs = [u \in Users |-> NoSubs]
    /\ reports = [p \in Procs |-> NoReport]
    /\ assigns = [p \in Procs |-> NoAssign]
    /\ bot = NoBot

\* The text is parsed, and the result is kept with it.
ParseOffset ==
    /\ resp.op = "timezone_text"
    /\ LET off == parseGmtOffsetToMinutes(resp.input)
       IN  resp' = [op |-> "parse_offset", user |-> resp.user,
                    error |-> IF off.ok THEN "none" ELSE "null", cid |-> 0,
                    input |-> resp.input, minutes |-> off.minutes]
    /\ UNCHANGED <<now, challenge_active, accessVars, reports, assigns, bot, sweepVars, users, parts,
                   checkins, anti, inflight>>

NextOffset == ParseOffset

SpecOffset == InitOffset /\ [][NextOffset]_vars

(***************************************************************************)
(* Notions the claims are stated with.                                     *)
(***************************************************************************)
\* A text that is an integer numeral: digits, with or without a leading minus sign.
IsIntegerText(text) ==
    /\ Len(text) > 0
    /\ \/ AllDigits(text)
       \/ text[1] = "-" /\ Len(text) > 1 /\ AllDigits(Tail(text))

IntegerValue(text) ==
    IF text[1] = "-" THEN 0 - DigitsValue(Tail(text)) ELSE DigitsValue(text)

HasDigit(text) == \E i \in 1..Len(text) : text[i] \in Digits

Terminal == {"passed", "failed", "expired"}

\* A solve request that reaches the evaluation of a pending challenge that has not expired.
Answerable(u, cid) ==
    /\ SolveGate(users, checkins, anti, u, cid) = "none"
    /\ anti[cid].status = "pending"
    /\ anti[cid].expires > now

(***************************************************************************)
(* The claims.                                                             *)
(***************************************************************************)

\* C1: once a challenge is passed, failed or expired, no step of a submit-answer
\* operation changes its status, also when two solve requests for it overlap.
C1_TerminalImmutable ==
    [][\A i \in 1..Len(anti) :
          (anti[i].exists /\ anti[i].status \in Terminal) => anti'[i].status = anti[i].status]_vars

\* C2: every approved voice/text check-in (every approved check-in that is not a group
\* tap) has a challenge in status passed.
C2_ApprovedOnlyByAntiCheat ==
    \A i \in 1..Len(checkins) :
        (checkins[i].kind # "group_plus" /\ checkins[i].status = "approved")
            => (anti[i].exists /\ anti[i].status = "passed")

\* C3: on a pending, unexpired challenge a wrong integer answer after two wrong answers
\* moves the challenge to failed and the check-in to rejected with reason
\* anticheat_failed; after none or one wrong answer it counts the attempt and leaves
\* both pending.
C3_ThreeWrongAnswersFail ==
    [][(resp'.op = "solve" /\ Answerable(resp'.user, resp'.cid)) =>
          LET u == resp'.user
              cid == resp'.cid
          IN  \A text \in AnswerTexts :
                ( /\ IsIntegerText(text)
                  /\ IntegerValue(text) # anti[cid].answer
                  /\ Solve(u, cid, text) )
                => IF anti[cid].attempts = 2
                   THEN /\ anti'[cid].status = "failed"
                        /\ checkins'[cid].status = "rejected"
                        /\ checkins'[cid].reason = "anticheat_failed"
                        /\ resp'.error = "failed"
                   ELSE /\ anti[cid].attempts \in {0, 1}
                        /\ anti'[cid].attempts = anti[cid].attempts + 1
                        /\ anti'[cid].status = "pending"
                        /\ checkins'[cid].status = "pending"
                        /\ resp'.error = "wrong_answer"]_vars

C3_Witness ==
    /\ resp.op = "solve"
    /\ resp.error = "failed"
    /\ anti[resp.cid].status = "failed"
    /\ anti[resp.cid].attempts = 3
    /\ checkins[resp.cid].status = "rejected"
    /\ checkins[resp.cid].reason = "anticheat_failed"

\* C4: a correct answer on a pending, unexpired challenge, after 0, 1 or 2 wrong
\* answers, moves the challenge to passed and the check-in to approved.
C4_CorrectAnswerPasses ==
    [][(resp'.op = "solve" /\ Answerable(resp'.user, resp'.cid)) =>
          LET u == resp'.user
              cid == resp'.cid
          IN  \A text \in AnswerTexts :
                ( /\ anti[cid].attempts \in {0, 1, 2}
                  /\ IsIntegerText(text)
                  /\ IntegerValue(text) = anti[cid].answer
                  /\ Solve(u, cid, text) )
                => /\ anti'[cid].status = "passed"
                   /\ checkins'[cid].status = "approved"
                   /\ resp'.error = "none"]_vars

C4_Witness ==
    /\ resp.op = "solve"
    /\ resp.error = "none"
    /\ anti[resp.cid].status = "passed"
    /\ anti[resp.cid].attempts = 2
    /\ checkins[resp.cid].status = "approved"

\* C5: a challenge expires 2 minutes after it is created, and any answer to a pending
\* challenge at or after its expiry is answered expired, moves the challenge to expired
\* and the check-in to rejected with reason anticheat_expired.
C5_LateAnswerExpires ==
    [][ /\ \A i \in 1..Len(anti') :
              anti'[i].exists => anti'[i].expires = checkins'[i].at + AntiCheatTtl
        /\ ( /\ resp'.op = "solve"
             /\ SolveGate(users, checkins, anti, resp'.user, resp'.cid) = "none"
             /\ anti[resp'.cid].status = "pending"
             /\ now >= anti[resp'.cid].expires ) =>
              LET u == resp'.user
                  cid == resp'.cid
              IN  \A text \in AnswerTexts :
                    Solve(u, cid, text)
                    => /\ resp'.error = "expired"
                       /\ anti'[cid].status = "expired"
                       /\ checkins'[cid].status = "rejected"
                       /\ checkins'[cid].reason = "anticheat_expired" ]_vars

C5_Witness ==
    /\ resp.op = "solve"
    /\ resp.error = "expired"
    /\ now >= checkins[resp.cid].at + AntiCheatTtl
    /\ anti[resp.cid].status = "expired"
    /\ checkins[resp.cid].status = "rejected"
    /\ checkins[resp.cid].reason = "anticheat_expired"

\* C6: an answer that is no integer, such as a text with no digit in it, is answered
\* invalid_answer and leaves the attempt counter, the challenge and the check-in as
\* they were.
C6_NonIntegerIsInvalid ==
    [][(resp'.op = "solve" /\ Answerable(resp'.user, resp'.cid)) =>
          LET u == resp'.user
              cid == resp'.cid
          IN  \A text \in AnswerTexts :
                ( /\ ~HasDigit(text)
                  /\ Solve(u, cid, text) )
                => /\ resp'.error = "invalid_answer"
                   /\ anti' = anti
                   /\ checkins' = checkins]_vars

\* A direct report of user u was admitted on the local day of instant t and still counts.
ReportedToday(u, t) ==
    \E i \in 1..Len(checkins) :
        /\ checkins[i].user = u
        /\ checkins[i].source = "voice"
        /\ checkins[i].status \in {"pending", "approved"}
        /\ LocalDay(checkins[i].at, users[u].tz) = LocalDay(t, users[u].tz)

\* The step is a direct report of user u, by voice or by text.
ReportStep(u) == \E draw \in AntiCheatDraws : Voice(u, draw) \/ DmText(u, draw)

\* C7 as stated: a direct report on a local day on which the user has a pending or
\* approved direct report creates no check-in and is answered already_voice_today.
C7_SecondReportAlreadyToday ==
    [][resp'.op \in {"voice", "dm_text"} =>
          LET u == resp'.user
          IN  ( /\ challenge_active
                /\ users[u].exists
                /\ ReportedToday(u, now)
                /\ ReportStep(u) )
              => /\ checkins' = checkins
                 /\ resp'.error = "already_voice_today"]_vars

\* C7 amended: such a report creates no check-in and no challenge, and is answered
\* already_voice_today, except that a voice report of a fixed-mode participant later than
\* 30 minutes after the wake time is answered penalty_mode.
C7_SecondReportCreatesNothing ==
    [][resp'.op \in {"voice", "dm_text"} =>
          LET u == resp'.user
          IN  ( /\ challenge_active
                /\ users[u].exists
                /\ ReportedToday(u, now)
                /\ ReportStep(u) )
              => /\ checkins' = checkins
                 /\ anti' = anti
                 /\ resp'.error =
                      IF /\ resp'.op = "voice"
                         /\ parts'[u].wake_mode = "fixed"
                         /\ parts'[u].wake # NoWake
                         /\ LocalMinute(now, users[u].tz) > parts'[u].wake + PenaltyCutoff
                      THEN "penalty_mode"
                      ELSE "already_voice_today"]_vars

C7_Witness ==
    /\ resp.op \in {"voice", "dm_text"}
    /\ resp.error = "already_voice_today"
    /\ ReportedToday(resp.user, now)
    /\ \E i \in 1..Len(checkins) :
          /\ checkins[i].user = resp.user
          /\ checkins[i].kind # resp.op
          /\ checkins[i].status \in {"pending", "approved"}
          /\ checkins[i].at < now

\* The step is a group tap of user u handled while the challenge is switched on.
TapStep(u) == challenge_active /\ resp'.op = "plus" /\ resp'.user = u /\ Plus(u)

\* The tap was accepted: it is stored as approved and answered ok.
TapAccepted ==
    /\ resp'.error = "none"
    /\ Len(checkins') = Len(checkins) + 1
    /\ checkins'[Len(checkins')].status = "approved"

\* The tap was rejected and stored with its reason.
TapRejected(reason) ==
    /\ resp'.error = reason
    /\ Len(checkins') = Len(checkins) + 1
    /\ checkins'[Len(checkins')].status = "rejected"
    /\ checkins'[Len(checkins')].reason = reason

\* Minute m lies between wake - 55 and wake + 10, counted round the 24h clock.
WithinPlusWindow(m, wake) ==
    \E d \in (0 - BeforeLimit)..AfterLimit : m = (wake + d + DayMinutes) % DayMinutes

\* C8: the tap of an active fixed-mode participant with wake time w is accepted when the
\* local minute is one of w-55 .. w+10 round the clock and rejected as outside_window
\* otherwise; w-55 and w+10 are in, w-56 and w+11 are out, and 23:30 is in for wake 00:10.
C8_FixedTapWindow ==
    [][\A u \in Reporters :
          ( /\ TapStep(u)
            /\ users[u].exists
            /\ parts[u].exists
            /\ ~parts[u].left
            /\ parts[u].wake_mode = "fixed"
            /\ parts[u].wake # NoWake )
          => LET m == LocalMinute(now, users[u].tz)
                 w == parts[u].wake
                 at(d) == (w + d + DayMinutes) % DayMinutes
             IN  /\ IF WithinPlusWindow(m, w) THEN TapAccepted ELSE TapRejected("outside_window")
                 /\ m \in {at(0 - BeforeLimit), at(AfterLimit)} => TapAccepted
                 /\ m \in {at(0 - BeforeLimit - 1), at(AfterLimit + 1)} => TapRejected("outside_window")
                 /\ (w = 10 /\ m = 1410) => TapAccepted]_vars

C8_Witness ==
    /\ resp.op = "plus"
    /\ resp.error = "none"
    /\ parts[resp.user].wake_mode = "fixed"
    /\ parts[resp.user].wake = 10
    /\ Len(checkins) = 1
    /\ checkins[1].status = "approved"
    /\ LocalMinute(checkins[1].at, users[resp.user].tz) = 1410

\* C9: the tap of an active flex participant is accepted at every local minute.
C9_FlexTapAlwaysAccepted ==
    [][\A u \in Reporters :
          ( /\ TapStep(u)
            /\ users[u].exists
            /\ parts[u].exists
            /\ ~parts[u].left
            /\ parts[u].wake_mode = "flex" )
          => TapAccepted]_vars

C9_Witness ==
    /\ resp.op = "plus"
    /\ resp.error = "none"
    /\ parts[resp.user].exists
    /\ parts[resp.user].wake_mode = "flex"
    /\ Len(checkins) = 1
    /\ checkins[1].status = "approved"
    /\ LocalMinute(checkins[1].at, users[resp.user].tz) = 0

\* C10 as stated: a tap from a sender with no user record or no participation leaves
\* both in place and is then evaluated as the tap of a participant.
C10_TapRegistersSender ==
    [][\A u \in Reporters :
          (TapStep(u) /\ (~users[u].exists \/ ~parts[u].exists))
          => /\ users'[u].exists
             /\ parts'[u].exists
             /\ ~parts'[u].left
             /\ resp'.error # "not_joined"]_vars

\* C10 amended: such a tap creates the missing user record and no participation, and is
\* stored as rejected with reason not_joined.
C10_TapCreatesUserOnly ==
    [][\A u \in Reporters :
          (TapStep(u) /\ (~users[u].exists \/ ~parts[u].exists))
          => /\ users'[u].exists
             /\ users[u].exists => users'[u] = users[u]
             /\ parts' = parts
             /\ TapRejected("not_joined")]_vars

C10_Witness ==
    /\ resp.op = "plus"
    /\ resp.error = "not_joined"
    /\ users[resp.user].exists
    /\ ~parts[resp.user].exists
    /\ Len(checkins) = 1
    /\ checkins[1].status = "rejected"
    /\ checkins[1].reason = "not_joined"

C12_LateReportRejected ==
    [][resp'.op \in {"voice", "dm_text"} =>
          LET u == resp'.user
          IN  (challenge_active /\ users[u].exists /\ parts[u].exists /\ ~parts[u].left /\ ReportStep(u))
              => /\ ( /\ parts[u].wake_mode = "fixed"
                      /\ parts[u].wake # NoWake
                      /\ LocalMinute(now, users[u].tz) > parts[u].wake + PenaltyCutoff )
                    => (resp'.error = "penalty_mode" /\ checkins' = checkins)
                 /\ parts[u].wake_mode = "flex" => resp'.error # "penalty_mode"]_vars

(***************************************************************************)
(* Notions the claims about the Penalty Sweep are stated with.             *)
(***************************************************************************)
\* The step is one whole run of the Penalty Sweep with the given dry-run flag.
RunStep(dry) ==
    /\ resp'.op = "penalties_run"
    /\ resp'.dry_run = dry
    /\ now' = now
    /\ \E q \in Orders(ActiveIn(Snapshot(now, dry))) : PenaltiesRun(dry, q)

Today(u) == LocalDay(now, users[u].tz)

\* The messages of one kind sent to user u.
MessagesTo(box, u, kind) ==
    BagCardinality([m \in {x \in DOMAIN box : x.to = u /\ x.kind = kind} |-> box[m]])

\* The marker rows of user u.
MarkersOf(lg, u) == BagCardinality([m \in {x \in DOMAIN lg : x.user = u} |-> lg[m]])

\* The step records a miss of user u for today.
MissRecorded(u) ==
    CopiesIn(Marker(u, "miss", Today(u)), ledger') > CopiesIn(Marker(u, "miss", Today(u)), ledger)

\* User u has an approved group tap on the local day of now.
TappedToday(u) ==
    \E i \in 1..Len(checkins) :
        /\ checkins[i].user = u
        /\ checkins[i].kind = "group_plus"
        /\ checkins[i].status = "approved"
        /\ LocalDay(checkins[i].at, users[u].tz) = Today(u)

\* User v is the partner of u in an active pair.
PairedWith(u, v) ==
    u # v /\ \E bp \in buddy_pairs : bp.status = "active" /\ {bp.a, bp.b} = {u, v}

Least(a, b) == IF a < b THEN a ELSE b

\* C13: when a run records today's miss of a participant, the level it acts on is the
\* number n of the participant's misses so far, clamped to 4: levels 1, 2 and 3 are
\* notified with that number, level 4 removes; with a miss on every day 0..d that is
\* min(d + 1, 4) on day d, and todayPenaltyLevel reads the same level afterwards.
C13_LevelIsMissCount ==
    [][RunStep(FALSE) =>
          \A u \in Users :
              MissRecorded(u) =>
                  LET n == missCount(ledger', u)
                      level == Least(n, MaxPenaltyLevel)
                  IN  /\ n >= 1
                      /\ todayPenaltyLevel(ledger', u, Today(u)) = level
                      /\ IF level < MaxPenaltyLevel
                         THEN CopiesIn(Message(u, "penalty", Today(u), level), outbox') = 1
                         ELSE /\ CopiesIn(Message(u, "kick", Today(u), level), outbox') >= 1
                              /\ parts'[u].left
                      /\ (\A d \in 0..Today(u) : hasMarker(ledger', u, "miss", d))
                            => level = Least(Today(u) + 1, MaxPenaltyLevel)]_vars

C13_Witness ==
    /\ resp.op = "penalties_run"
    /\ \A d \in 0..3 : hasMarker(ledger, "u1", "miss", d)
    /\ \A d \in 0..2 : CopiesIn(Message("u1", "penalty", d, d + 1), outbox) = 1
    /\ CopiesIn(Message("u1", "kick", 3, 4), outbox) = 1
    /\ todayPenaltyLevel(ledger, "u1", 3) = 4
    /\ parts["u1"].left

\* C14: a run in which a participant reaches level 4 sets left_at on the participation
\* of that participant and on the one of the partner in their active buddy pair.
C14_LevelFourRemovesPair ==
    [][RunStep(FALSE) =>
          \A u \in Users :
              (MissRecorded(u) /\ missCount(ledger', u) >= MaxPenaltyLevel)
              => /\ parts'[u].left
                 /\ \A v \in Users :
                       (PairedWith(u, v) /\ parts[v].exists /\ ~parts[v].left) => parts'[v].left]_vars

C14_Witness ==
    /\ resp.op = "penalties_run"
    /\ resp.kicked = 1
    /\ missCount(ledger, "u1") = 4
    /\ parts["u1"].left
    /\ PairedWith("u1", "u2")
    /\ missCount(ledger, "u2") = 0
    /\ parts["u2"].left
    /\ CopiesIn(Message("u2", "kick", 3, 4), outbox) = 1

\* C16: from every state, a run at the present instant followed by a second run at the
\* same instant ends in the store the first run left, and the second run sends nothing.
C16_SecondRunIsNoOp ==
    \A q1 \in Orders(ActiveIn(Snapshot(now, FALSE))) :
        LET s1 == SweepLoop(SweepStore(parts, ledger, outbox), Snapshot(now, FALSE), q1, checkins)
            snap2 == SnapshotOf(now, FALSE, s1.parts, users, buddy_pairs)
        IN  \A q2 \in Orders(ActiveIn(snap2)) :
                LET s2 == SweepLoop(SweepStore(s1.parts, s1.ledger, s1.outbox), snap2, q2, checkins)
                IN  /\ s2.parts = s1.parts
                    /\ s2.ledger = s1.ledger
                    /\ s2.outbox = s1.outbox
                    /\ s2.notices_sent = 0
                    /\ s2.kicked = 0

\* A run that found a participant due and had nothing left to do for today.
C16_Witness ==
    /\ resp.op = "penalties_run"
    /\ ~resp.dry_run
    /\ resp.evaluated > 0
    /\ resp.notices_sent = 0
    /\ resp.kicked = 0
    /\ hasMarker(ledger, "u1", "miss", Today("u1"))
    /\ MessagesTo(outbox, "u1", "penalty") = missCount(ledger, "u1")
    /\ ~parts["u1"].left

\* C18: a run records no miss and sends no penalty for a participant who has an approved
\* group tap today, and marks notice-sent for today when it evaluates that participant.
C18_NoMissWithTap ==
    [][\A dry \in BOOLEAN :
          RunStep(dry) =>
              \A u \in Users :
                  TappedToday(u)
                  => /\ ~MissRecorded(u)
                     /\ missCount(ledger', u) = missCount(ledger, u)
                     /\ MessagesTo(outbox', u, "penalty") = MessagesTo(outbox, u, "penalty")
                     /\ ( /\ parts[u].exists
                          /\ ~parts[u].left
                          /\ parts[u].wake_mode = "fixed"
                          /\ parts[u].wake # NoWake
                          /\ LocalMinute(now, users[u].tz) >= parts[u].wake + SweepCutoff )
                        => hasMarker(ledger', u, "notice_sent", Today(u))]_vars

C18_Witness ==
    /\ resp.op = "penalties_run"
    /\ resp.evaluated > 0
    /\ TappedToday("u1")
    /\ hasMarker(ledger, "u1", "notice_sent", Today("u1"))
    /\ ~hasMarker(ledger, "u1", "miss", Today("u1"))
    /\ MessagesTo(outbox, "u1", "penalty") = 0

C20_DryRunWritesNothing ==
    [][RunStep(TRUE) =>
          /\ ledger' = ledger
          /\ parts' = parts
          /\ users' = users
          /\ outbox' = outbox]_vars

\* C15: once a removal message has gone out to a user, no penalty notice goes out to
\* that user any more.
C15_NoNoticeAfterRemoval ==
    [][\A u \in Users :
          MessagesTo(outbox, u, "kick") > 0
          => MessagesTo(outbox', u, "penalty") = MessagesTo(outbox, u, "penalty")]_vars

\* C17: with sweep runs overlapping, every participant has at most one miss marker and
\* is sent at most one penalty notice for a local day.
C17_OncePerDay ==
    \A u \in Users : \A d \in 0..MaxConcDay :
        /\ CopiesIn(Marker(u, "miss", d), ledger) <= 1
        /\ BagCardinality([m \in {x \in DOMAIN outbox : x.to = u /\ x.kind = "penalty" /\ x.day = d}
                              |-> outbox[m]]) <= 1

\* The participants of the snapshot whose row reaches the marker reads.
DueNow(dry) == {u \in ActiveIn(Snapshot(now, dry)) : SweepDue(Snapshot(now, dry), u)}

\* C21: a run in which a call for one participant fails, the send of the message or a
\* store call, still replies ok, has evaluated every due participant, and lists the
\* failure among its errors.
C21_FailureStaysInRun ==
    [][\A dry \in BOOLEAN, faults \in Faults :
          \A q \in Orders(ActiveIn(Snapshot(now, dry))) :
              PenaltiesRunFaulty(dry, q, faults)
              => /\ resp'.ok
                 /\ resp'.evaluated = Cardinality(DueNow(dry))
                 /\ (\E u \in DueNow(dry) : faults[u] = "store") => Len(resp'.errors) > 0]_vars

(***************************************************************************)
(* Notions the claims about the access class are stated with.              *)
(***************************************************************************)
\* The step is one profile fetch of user u.
MeStep(u) ==
    /\ resp'.op = "me"
    /\ resp'.user = u
    /\ now' = now
    /\ \E latest \in 0..Len(payments) : Me(u, latest)

\* The length in days of the period a payment of the plan buys; 0 for none.
PlanLength(plan) == IF plan = "d30" THEN 30 ELSE IF plan = "d60" THEN 60 ELSE IF plan = "d90" THEN 90 ELSE 0

HasForever(u) ==
    \E i \in 1..Len(payments) :
        payments[i].user = u /\ payments[i].status = "paid" /\ payments[i].plan = "life"

HasPaid(u) == \E i \in 1..Len(payments) : payments[i].user = u /\ payments[i].status = "paid"

\* now is before the end of a paid period of the user.
InPaidPeriod(u) ==
    \E i \in 1..Len(payments) :
        /\ payments[i].user = u
        /\ payments[i].status = "paid"
        /\ PlanLength(payments[i].plan) > 0
        /\ now < payments[i].at + PlanLength(payments[i].plan) * DayMinutes

TrialStarts(u) == {m \in DOMAIN ledger : m.user = u /\ m.kind = "trial_7d_start"}

InTrial(u) == \E m \in TrialStarts(u) : now < m.day + 7 * DayMinutes

\* The class the rules of the access classification give.
ClassByRules(u) ==
    IF HasForever(u) \/ InPaidPeriod(u) THEN "paid"
    ELSE IF InTrial(u) THEN "trial"
    ELSE IF HasPaid(u) THEN "expired"
    ELSE "lead"

C23_NoSecondTrial ==
    \A u \in Users :
        (\A i \in 1..Len(payments) : payments[i].user # u)
        => /\ BagCardinality([m \in TrialStarts(u) |-> ledger[m]]) <= 1
           /\ (resp.op = "me" /\ resp.user = u /\ TrialStarts(u) # {}) => resp.offer # "trial_7d"

\* C24: the trial offer and the chat invite are delivered at most once, the refund notice
\* at most once for each refunded payment, and the renewal prompt at most once for each
\* paid period that has ended.
C24_OffersOnce ==
    \A u \in Users :
        /\ CopiesIn(Message(u, "trial_7d", 0, 0), outbox) <= 1
        /\ CopiesIn(Message(u, "chat_invite", 0, 0), outbox) <= 1
        /\ CopiesIn(Message(u, "refund_notice", 0, 0), outbox)
              <= Cardinality({i \in 1..Len(payments) : payments[i].user = u})
        /\ CopiesIn(Message(u, "renew_prompt", 0, 0), outbox)
              <= Cardinality({i \in 1..Len(payments) : payments[i].user = u})

(***************************************************************************)
(* Notions the claims about the Subscription Sweep are stated with.        *)
(***************************************************************************)
\* The step is one whole run of the Subscription Sweep.
SubsStep(dry) == resp'.op = "subscriptions_run" /\ resp'.dry_run = dry /\ now' = now /\ SubscriptionsRun(dry)

SubsKinds == {"reminder_2d", "expiry_prompt", "sub_kick"}

\* The messages of the Subscription Sweep the step hands out.
SubsSent == {m \in DOMAIN outbox' : m.kind \in SubsKinds /\ CopiesIn(m, outbox') > CopiesIn(m, outbox)}

\* T is the end of a paid period of user u.
PaidUntilOf(u, T) ==
    \E i \in 1..Len(payments) :
        /\ payments[i].user = u
        /\ payments[i].status = "paid"
        /\ PlanLength(payments[i].plan) > 0
        /\ T = payments[i].at + PlanLength(payments[i].plan) * DayMinutes

\* C25: for a paid-until instant T of a user the reminder, the expiry prompt and the
\* group removal each go out at most once over all runs, the reminder at an instant of
\* [T - 2d, T), the expiry prompt in [T, T + 1d), the removal at or after T + 1d.
C25_OncePerPaidUntil ==
    [][/\ \A m \in DOMAIN outbox' : m.kind \in SubsKinds => CopiesIn(m, outbox') = 1
       /\ \A m \in SubsSent :
             /\ SubsStep(FALSE)
             /\ PaidUntilOf(m.to, m.day)
             /\ m.kind = "reminder_2d" => (now >= m.day - 2 * DayMinutes /\ now < m.day)
             /\ m.kind = "expiry_prompt" => (now >= m.day /\ now < m.day + DayMinutes)
             /\ m.kind = "sub_kick" => now >= m.day + DayMinutes]_vars

\* All three went out for the period that ended on day 30, and a later run did nothing.
C25_Witness ==
    /\ resp.op = "subscriptions_run"
    /\ ~resp.dry_run
    /\ resp.computed > 0
    /\ resp.kicked = 0
    /\ now >= 31 * DayMinutes
    /\ \A k \in SubsKinds : CopiesIn(Message("u1", k, 30 * DayMinutes, 0), outbox) = 1

\* C26: a run sends no reminder, no expiry prompt and no removal to, and sets no left_at
\* for, a user who has a forever payment or whose trial is active.
C26_ForeverAndTrialExcluded ==
    [][\A dry \in BOOLEAN :
          SubsStep(dry) =>
              \A u \in Users :
                  (HasForever(u) \/ InTrial(u))
                  => /\ \A m \in SubsSent : m.to # u
                     /\ parts'[u] = parts[u]]_vars

\* C27: once left_at is set on a participation row, no operation clears it.
C27_LeftIsNeverCleared ==
    [][\A u \in Users : parts[u].exists /\ parts[u].left => parts'[u].exists /\ parts'[u].left]_vars

\* C28: every participation is in at most one active buddy pair, the pairs holding it
\* as side A and the pairs holding it as side B counted together.
C28_OneActivePair ==
    \A u \in Users : Cardinality(getBuddyUserForParticipation(buddy_pairs, u)) <= 1

\* Two pending direct reports of one user inside one local day of the user.
TwoPendingSameDay ==
    \E i, j \in 1..Len(checkins) :
        /\ i < j
        /\ checkins[i].user = checkins[j].user
        /\ checkins[i].source = "voice" /\ checkins[j].source = "voice"
        /\ checkins[i].status = "pending" /\ checkins[j].status = "pending"
        /\ LocalDay(checkins[i].at, users[checkins[i].user].tz)
              = LocalDay(checkins[j].at, users[checkins[j].user].tz)

\* C29: the select of the day's report and the insert are separate steps: a report that
\* has passed the select is inserted as pending whatever has been inserted since, so two
\* overlapping reports of one user are both inserted for the same local day.
C29_InsertDoesNotRecheck ==
    [][\A p \in Procs :
          reports[p].pc = "insert" /\ reports'[p].pc = "idle" =>
              /\ Len(checkins') = Len(checkins) + 1
              /\ checkins'[Len(checkins')].user = reports[p].user
              /\ checkins'[Len(checkins')].source = "voice"
              /\ checkins'[Len(checkins')].status = "pending"
              /\ checkins'[Len(checkins')].at = now]_vars

C29_Witness ==
    /\ TwoPendingSameDay
    /\ \E i \in 1..Len(checkins) : HasVoiceToday(SubSeq(checkins, 1, i - 1), checkins[i].user,
                                                  checkins[i].at, users[checkins[i].user].tz)

\* The solve requests that have evaluated a wrong answer against challenge cid and have
\* not written the row yet.
WrongAhead(cid) ==
    Cardinality({p \in Procs : /\ inflight[p].pc = "write_challenge"
                               /\ inflight[p].cid = cid
                               /\ inflight[p].outcome \in {"wrong_answer", "failed"}})

\* C30: the attempt counter never exceeds three, and no more than three wrong answers
\* are evaluated against one challenge: the wrong answers counted on the row (each unit
\* of attempts was written by an evaluation of its own) and the wrong answers evaluated
\* and not yet written are three at most together.
C30_AtMostThreeWrong ==
    \A cid \in 1..Len(anti) :
        anti[cid].exists =>
            /\ anti[cid].attempts <= MaxAttempts
            /\ anti[cid].attempts + WrongAhead(cid) <= MaxAttempts

\* The check-in status that goes with a challenge status.
CheckinStatusFor(st) ==
    CASE st = "pending" -> "pending"
      [] st = "passed" -> "approved"
      [] OTHER -> "rejected"

\* No solve request of challenge cid is between its read and its reply.
SolveQuiet(cid) == \A p \in Procs : inflight[p].pc = "idle" \/ inflight[p].cid # cid

\* C31: once the solve requests of a challenge have completed, in any interleaving, the
\* status of the challenge and of its check-in agree: pending with pending, passed with
\* approved, failed or expired with rejected.
C31_StatusesAgree ==
    \A cid \in 1..Len(anti) :
        anti[cid].exists /\ SolveQuiet(cid) =>
            checkins[cid].status = CheckinStatusFor(anti[cid].status)

\* C32: every pending direct report has its anti-cheat challenge, one per check-in, also
\* when the handler fails between the insert of the check-in and of the challenge.
C32_PendingHasChallenge ==
    /\ Len(anti) = Len(checkins)
    /\ \A i \in 1..Len(checkins) :
          /\ checkins[i].source = "voice" /\ checkins[i].status = "pending" => anti[i].exists
          /\ anti[i].exists => checkins[i].source = "voice"

\* The direct reports of u that count for the local day of instant t.
ReportsToday(u, t) ==
    {i \in 1..Len(checkins) :
        /\ checkins[i].user = u
        /\ checkins[i].source = "voice"
        /\ checkins[i].status \in {"pending", "approved"}
        /\ checkins[i].at >= DayStartUtc(t, users[u].tz)
        /\ checkins[i].at <= DayEndUtc(t, users[u].tz)}

\* Every report of u that counts for today is pending on a challenge whose expiry has passed.
OnlyExpiredToday(u) ==
    /\ users[u].exists
    /\ ReportsToday(u, now) # {}
    /\ \A i \in ReportsToday(u, now) :
          /\ checkins[i].status = "pending"
          /\ anti[i].exists /\ anti[i].status = "pending" /\ anti[i].expires <= now

\* C33: once the expiry of the challenge has passed, a new direct report of the same local
\* day is not refused with already_voice_today, whether or not an answer was sent after
\* the expiry.
C33_ExpiredDoesNotBlock ==
    [][\A u \in Users : OnlyExpiredToday(u) /\ ReportStep(u) => resp'.error # "already_voice_today"]_vars

\* The penalty notices sent to u for the local date day.
NoticesFor(box, u, day) == {m \in DOMAIN box : m.to = u /\ m.kind = "penalty" /\ m.day = day}

\* An answer to the notice of a local date is handled in this step and accepted.
AnswerStep ==
    /\ resp' # resp
    /\ resp'.op \in {"penalty_choose", "penalty_pay_create", "penalty_task_submit"}
    /\ resp'.error = "none"

\* C34: the level and the (squats, fine) pair of the choice, pay and task endpoints for a
\* local date are those of the notice of that date, also after misses of later days.
C34_AnswerMatchesNotice ==
    [][AnswerStep =>
          \A m \in NoticesFor(outbox, resp'.user, resp'.day) :
              /\ resp'.level = m.level
              /\ resp'.squats = penaltyInfoRun(m.level).squats
              /\ resp'.fine_rub = penaltyInfoRun(m.level).fine_rub]_vars

\* A run in which no call fails.
NoFaults == [u \in Users |-> "none"]

\* The participants with a miss of a fine level recorded for today and no notice of today
\* delivered.
MissWithoutNotice ==
    {u \in DueNow(FALSE) :
        /\ hasMarker(ledger, u, "miss", Today(u))
        /\ todayPenaltyLevel(ledger, u, Today(u)) <= LastFineLevel
        /\ NoticesFor(outbox, u, Today(u)) = {}}

\* C35: a run without failures sends the notice of today to every due participant whose
\* miss of today is recorded and whose notice was not delivered by an earlier run.
C35_FailedNoticeIsResent ==
    [][\A q \in Orders(ActiveIn(Snapshot(now, FALSE))) :
          PenaltiesRunFaulty(FALSE, q, NoFaults)
          => \A u \in MissWithoutNotice : NoticesFor(outbox', u, Today(u)) # {}]_vars

\* The users whose paid period has ended by now and whose participation is still active.
LapsedActive ==
    {u \in Users :
        /\ users[u].exists
        /\ parts[u].exists /\ ~parts[u].left
        /\ ~HasForever(u)
        /\ getPaidAccessInfo(payments, u, now).paid_until # NoTime
        /\ getPaidAccessInfo(payments, u, now).paid_until <= now}

\* C36: a Subscription Sweep run at or after the end T of a user's paid period sets left_at
\* on the still-active participation, in the day after T and on any later day.
C36_LapsedIsMarkedLeft ==
    [][SubsStep(FALSE) => \A u \in LapsedActive : parts'[u].left]_vars

\* The direct messages about a rejected tap sent to u for the local date day.
RejectedNotices(box, u, day) ==
    BagCardinality([m \in {x \in DOMAIN box : x.to = u /\ x.kind = "plus_rejected" /\ x.day = day}
                      |-> box[m]])

\* The rejection reasons of the taps of u on the local date day.
RejectReasons(u, day) ==
    {checkins[i].reason : i \in {j \in 1..Len(checkins) :
        /\ checkins[j].user = u
        /\ checkins[j].kind = "group_plus"
        /\ checkins[j].status = "rejected"
        /\ LocalDay(checkins[j].at, users[u].tz) = day}}

\* C37: for one user and one local date the bot sends one direct message about a rejected
\* tap at most, whatever the reasons of the later rejections of that date.
C37_OneRejectedNotice ==
    \A u \in Users, day \in 0..(MaxDay + 1) : RejectedNotices(outbox, u, day) <= 1

C37_Witness ==
    \E u \in Users, day \in 0..(MaxDay + 1) :
        /\ RejectedNotices(outbox, u, day) = 1
        /\ Cardinality(RejectReasons(u, day)) >= 2

\* The confirmations of a paid fine in the outbox.
FinePaidIn(box) == {m \in DOMAIN box : m.kind = "fine_paid"}

\* C38: a confirmation of a paid fine is sent only while the payment of its pay intent is
\* paid, and one pay intent gets one confirmation at most, however many runs of the Penalty
\* Sweep follow.
C38_FinePaidOnce ==
    [][\A m \in FinePaidIn(outbox') :
          /\ CopiesIn(m, outbox') <= 1
          /\ CopiesIn(m, outbox') > CopiesIn(m, outbox)
                => IntentStatus(payments, [user |-> m.to, pid |-> m.pid]) = "paid"]_vars

\* A confirmed fine with a marker, and a later real run that had the intent before it again.
C38_Witness ==
    /\ \E m \in FinePaidIn(outbox) :
          /\ BagIn(PayNotified([user |-> m.to, day |-> m.day, pid |-> m.pid]), ledger)
          /\ \E i \in DOMAIN ledger : i.kind = "pay_intent" /\ i.user = m.to /\ i.pid = m.pid
    /\ resp.op = "penalties_run" /\ ~resp.dry_run /\ resp.fines_paid_notified = 0

\* The forward inclusive range [start, start + windowLen] on the clock of 1440 minutes.
InForwardRange(nowMinutes, startMinutes, windowLen) ==
    (nowMinutes - startMinutes + DayMinutes) % DayMinutes <= windowLen

\* C39: isInWindow holds exactly for the minutes of the forward inclusive range
\* [start, start + windowLen] taken modulo 1440, so a text check-in is approved exactly when
\* its local minute is in that range, also past midnight.
C39_WindowWrapsMidnight ==
    \A i \in 1..Len(checkins) :
        checkins[i].kind = "text" =>
            (checkins[i].status = "approved"
                <=> InForwardRange(LocalMinute(checkins[i].at, users[checkins[i].user].tz),
                                   parts[checkins[i].user].wake, DefaultWindow))

\* C40: the parse of a fixed-offset time zone accepts only offsets within +-14:00, and a text
\* whose offset is larger in magnitude than 14:00, such as GMT+14:30, is rejected.
C40_OffsetWithinFourteenHours ==
    (resp.op = "parse_offset" /\ resp.error = "none")
        => (resp.minutes >= -(MaxOffsetHours * 60) /\ resp.minutes <= MaxOffsetHours * 60)

====
